---- MODULE Spec2Model ----
(***************************************************************************)
(* The Inspector: the AST validation service of the artificers-academy     *)
(* backend (backend/app/services/ast_validator.py), its response schema    *)
(* (backend/app/models/schemas.py) and its callers.                        *)
(*                                                                         *)
(* Python values are represented as follows.                               *)
(*   Optional[T]      None is <<>>, a present value v is <<v>>.            *)
(*   text that the code inspects character by character (docstrings,      *)
(*   resource URIs, parameter names) is a sequence of one-character        *)
(*   strings; identifiers that are only compared as a whole are strings.   *)
(*   an ast node is a record with a "type" field naming its Python class   *)
(*   and the fields of that class the validator reads.                     *)
(***************************************************************************)
EXTENDS Integers, Sequences, FiniteSets, TLC

None == <<>>
Some(x) == <<x>>

\* Python truthiness of an Optional[str]: None and the empty string are falsy.
Truthy(opt) == opt # None /\ opt[1] # ""

\* Python truthiness of an Optional text (sequence of characters).
TruthyText(opt) == opt # None /\ opt[1] # <<>>

(***************************************************************************)
(* ast nodes                                                               *)
(***************************************************************************)
Name(id) == [type |-> "Name", id |-> id]
Attribute(value, attr) == [type |-> "Attribute", value |-> value, attr |-> attr]
Call(func, args) == [type |-> "Call", func |-> func, args |-> args]
\* kind is the Python type of the constant's value ("str", "int", "bytes");
\* text is the value (for a str) or its digits/bytes.
Constant(kind, text) == [type |-> "Constant", kind |-> kind, text |-> text]
Expr(value) == [type |-> "Expr", value |-> value]
Pass == [type |-> "Pass"]
Import(names) == [type |-> "Import", names |-> names]
ImportFrom(module, names) == [type |-> "ImportFrom", module |-> module, names |-> names]
Assign(targets, value) == [type |-> "Assign", targets |-> targets, value |-> value]
Try(body) == [type |-> "Try", body |-> body]
Arguments(posonlyargs, args, kwonlyargs) ==
    [posonlyargs |-> posonlyargs, args |-> args, kwonlyargs |-> kwonlyargs]
FunctionDef(name, lineno, args, body, decorator_list) ==
    [type |-> "FunctionDef", name |-> name, lineno |-> lineno, args |-> args,
     body |-> body, decorator_list |-> decorator_list]
AsyncFunctionDef(name, lineno, args, body, decorator_list) ==
    [type |-> "AsyncFunctionDef", name |-> name, lineno |-> lineno, args |-> args,
     body |-> body, decorator_list |-> decorator_list]
Module(body) == [type |-> "Module", body |-> body]

\* ast.iter_child_nodes: the child nodes of a node, in field order.  The
\* arguments node of a function and the alias nodes of an import have no
\* descendant the validator looks at and are left out.
IterChildNodes(node) ==
    CASE node.type = "Module" -> node.body
      [] node.type \in {"FunctionDef", "AsyncFunctionDef"} ->
            node.body \o node.decorator_list
      [] node.type = "Try" -> node.body
      [] node.type = "Assign" -> node.targets \o <<node.value>>
      [] node.type = "Expr" -> <<node.value>>
      [] node.type = "Call" -> <<node.func>> \o node.args
      [] node.type = "Attribute" -> <<node.value>>
      [] OTHER -> <<>>

\* ast.walk: breadth-first, the node itself first.
RECURSIVE WalkQueue(_)
WalkQueue(todo) ==
    IF todo = <<>> THEN <<>>
    ELSE <<Head(todo)>> \o WalkQueue(Tail(todo) \o IterChildNodes(Head(todo)))

Walk(node) == WalkQueue(<<node>>)

\* inspect.cleandoc on a one-line docstring: leading whitespace is stripped.
RECURSIVE Cleandoc(_)
Cleandoc(text) ==
    IF text # <<>> /\ Head(text) = " " THEN Cleandoc(Tail(text)) ELSE text

\* ast.get_docstring(node): the cleaned value of a leading string-constant
\* expression statement, or None.
GetDocstring(node) ==
    IF node.body # <<>> /\ node.body[1].type = "Expr"
       /\ node.body[1].value.type = "Constant" /\ node.body[1].value.kind = "str"
    THEN Some(Cleandoc(node.body[1].value.text))
    ELSE None

(***************************************************************************)
(* text helpers                                                            *)
(***************************************************************************)
\* sub in text, for sequences of characters
Contains(text, sub) ==
    \E i \in 0..(Len(text) - Len(sub)) :
        \A j \in 1..Len(sub) : text[i + j] = sub[j]

HasChar(text, c) == \E i \in DOMAIN text : text[i] = c

\* x in list
InList(x, list) == \E i \in DOMAIN list : list[i] = x

\* the characters \w matches, among those the model's texts are written in
WordChars == {"a", "b", "c", "d", "f", "i", "p", "x", "y", "_"}

\* the longest run of word characters of text starting at position i
RECURSIVE WordRunEnd(_, _)
WordRunEnd(text, i) ==
    IF i <= Len(text) /\ text[i] \in WordChars THEN WordRunEnd(text, i + 1) ELSE i

\* re.findall(r'\{(\w+)\}', text) scanning from position i: every
\* non-overlapping match, left to right, each given by its group.
RECURSIVE FindTemplateParamsFrom(_, _)
FindTemplateParamsFrom(text, i) ==
    IF i > Len(text) THEN <<>>
    ELSE IF text[i] = "{"
         THEN LET e == WordRunEnd(text, i + 1)
              IN IF e > i + 1 /\ e <= Len(text) /\ text[e] = "}"
                 THEN <<SubSeq(text, i + 1, e - 1)>> \o FindTemplateParamsFrom(text, e + 1)
                 ELSE FindTemplateParamsFrom(text, i + 1)
         ELSE FindTemplateParamsFrom(text, i + 1)

FindTemplateParams(text) == FindTemplateParamsFrom(text, 1)

(***************************************************************************)
(* The submitted code.  A code is its raw text, of which the validator     *)
(* only asks whether fixed probe strings occur in it, and what ast.parse   *)
(* makes of it: a tree, or a SyntaxError with its line and message.        *)
(***************************************************************************)
SourceCode(text, tree) ==
    [text |-> text, ok |-> TRUE, tree |-> tree, lineno |-> 0, msg |-> ""]
BrokenCode(text, lineno, msg) ==
    [text |-> text, ok |-> FALSE, tree |-> Module(<<>>), lineno |-> lineno, msg |-> msg]

\* the probe strings that occur inside a longer fragment of text
ProbesWithin(fragment) ==
    CASE fragment = "get_cached" -> {"_cache"}
      [] fragment = "set_cached" -> {"_cache"}
      [] fragment = "lru_cache" -> {"_cache"}
      [] fragment = "httpx.AsyncClient" -> {"AsyncClient"}
      [] fragment = "async with httpx.AsyncClient" -> {"AsyncClient", "async with httpx"}
      [] fragment = "if '..' not in path" -> {"..", "not"}
      [] fragment = "path.resolve()" -> {"resolve()"}
      [] fragment = "transport='sse'" -> {"transport=", "'sse'"}
      [] OTHER -> {}

\* pattern in code
InCode(pattern, code) ==
    \E fragment \in code.text : pattern = fragment \/ pattern \in ProbesWithin(fragment)

(***************************************************************************)
(* schemas.py                                                              *)
(***************************************************************************)
\* the interpolated parts of a diagnostic's message
Message(subject, param) == [subject |-> subject, param |-> param]

ValidationError(type, line, message) ==
    [type |-> type, line |-> line, message |-> message]

\* the fields the ValidationResponse model declares
ResponseFields == {"valid", "errors", "tools_found", "resources_found", "prompts_found"}

\* ValidationResponse(**kwargs): a pydantic model keeps its declared fields
\* and ignores every other keyword argument.
ValidationResponse(kwargs) == [f \in ResponseFields |-> kwargs[f]]

(***************************************************************************)
(* MCPValidator.  The instance is a record of its fields; a method is an   *)
(* operator from the instance (self) to the instance it leaves.  A loop is *)
(* a recursive operator over what remains to be visited; where it tests    *)
(* "next = self" both branches continue with the same instance, and the    *)
(* test only makes the evaluation of one iteration precede the next.       *)
(***************************************************************************)
MCPValidator(level) ==
    [level |-> level,
     errors |-> <<>>,
     warnings |-> <<>>,
     tools_found |-> <<>>,
     resources_found |-> <<>>,
     prompts_found |-> <<>>,
     has_fastmcp_import |-> FALSE,
     has_mcp_instance |-> FALSE,
     has_httpx_import |-> FALSE,
     has_async_client |-> FALSE,
     has_caching |-> FALSE,
     has_path_validation |-> FALSE,
     mcp_var_name |-> None]

AddError(self, type, line, message) ==
    [self EXCEPT !.errors = Append(@, ValidationError(type, line, message))]

AddWarning(self, type, line, message) ==
    [self EXCEPT !.warnings = Append(@, ValidationError(type, line, message))]

\* validate, "Reset state"
ResetState(self, level) ==
    [self EXCEPT
        !.level = IF Truthy(level) THEN level ELSE self.level,
        !.errors = <<>>,
        !.warnings = <<>>,
        !.tools_found = <<>>,
        !.resources_found = <<>>,
        !.prompts_found = <<>>,
        !.has_fastmcp_import = FALSE,
        !.has_mcp_instance = FALSE,
        !.has_httpx_import = FALSE,
        !.has_async_client = FALSE,
        !.has_caching = FALSE,
        !.has_path_validation = FALSE,
        !.mcp_var_name = None]

\* BuildResponse with warnings counted against validity
BuildResponseStrict(self) ==
    ValidationResponse(
        [valid |-> Len(self.errors) = 0 /\ Len(self.warnings) = 0,
         errors |-> self.errors,
         warnings |-> self.warnings,
         tools_found |-> self.tools_found,
         resources_found |-> self.resources_found,
         prompts_found |-> self.prompts_found,
         has_async |-> self.has_async_client,
         has_caching |-> self.has_caching,
         has_security |-> self.has_path_validation])

BuildResponse(self) ==
    ValidationResponse(
        [valid |-> Len(self.errors) = 0,
         errors |-> self.errors,
         warnings |-> self.warnings,
         tools_found |-> self.tools_found,
         resources_found |-> self.resources_found,
         prompts_found |-> self.prompts_found,
         has_async |-> self.has_async_client,
         has_caching |-> self.has_caching,
         has_security |-> self.has_path_validation])

\* validate, the except SyntaxError branch
SyntaxErrorCaught(self, code) ==
    AddError(self, "syntax_error", code.lineno, Message(code.msg, <<>>))

\* module names with "httpx" in them
HttpxModules == {"httpx", "httpx._client"}

\* the body of the loop of _check_imports for one node
CheckImportNode(self, node) ==
    IF node.type = "ImportFrom" THEN
        IF node.module = Some("fastmcp") THEN
            IF InList("FastMCP", node.names)
            THEN [self EXCEPT !.has_fastmcp_import = TRUE]
            ELSE self
        ELSE IF node.module = Some("httpx")
                \/ (Truthy(node.module) /\ node.module[1] \in HttpxModules)
        THEN [self EXCEPT !.has_httpx_import = TRUE]
        ELSE self
    ELSE IF node.type = "Import" THEN
        [self EXCEPT
            !.has_fastmcp_import = @ \/ InList("fastmcp", node.names),
            !.has_httpx_import = @ \/ InList("httpx", node.names)]
    ELSE self

RECURSIVE CheckImportNodes(_, _)
CheckImportNodes(self, nodes) ==
    IF nodes = <<>> THEN self
    ELSE LET next == CheckImportNode(self, Head(nodes))
         IN IF next = self THEN CheckImportNodes(self, Tail(nodes))
            ELSE CheckImportNodes(next, Tail(nodes))

CheckImports(self, tree) == CheckImportNodes(self, Walk(tree))

\* CheckMcpInstanceNode counting an instantiation only when it is bound to a name
CheckMcpInstanceNodeNamedOnly(self, node) ==
    IF node.type = "Assign" /\ node.value.type = "Call"
       /\ \/ node.value.func.type = "Name" /\ node.value.func.id = "FastMCP"
          \/ node.value.func.type = "Attribute" /\ node.value.func.attr = "FastMCP"
       /\ node.targets # <<>> /\ node.targets[1].type = "Name"
    THEN [self EXCEPT !.has_mcp_instance = TRUE,
                      !.mcp_var_name = Some(node.targets[1].id)]
    ELSE self

\* CheckMcpInstanceNode keeping the first binding name it resolved
CheckMcpInstanceNodeFirstWins(self, node) ==
    IF node.type = "Assign" /\ node.value.type = "Call"
       /\ \/ node.value.func.type = "Name" /\ node.value.func.id = "FastMCP"
          \/ node.value.func.type = "Attribute" /\ node.value.func.attr = "FastMCP"
    THEN [self EXCEPT
            !.has_mcp_instance = TRUE,
            !.mcp_var_name =
                IF node.targets # <<>> /\ node.targets[1].type = "Name" /\ @ = None
                THEN Some(node.targets[1].id)
                ELSE @]
    ELSE self

\* the body of the loop of _check_mcp_instance for one node
CheckMcpInstanceNode(self, node) ==
    IF node.type = "Assign" /\ node.value.type = "Call"
       /\ \/ node.value.func.type = "Name" /\ node.value.func.id = "FastMCP"
          \/ node.value.func.type = "Attribute" /\ node.value.func.attr = "FastMCP"
    THEN [self EXCEPT
            !.has_mcp_instance = TRUE,
            !.mcp_var_name =
                IF node.targets # <<>> /\ node.targets[1].type = "Name"
                THEN Some(node.targets[1].id)
                ELSE @]
    ELSE self

RECURSIVE CheckMcpInstanceNodes(_, _)
CheckMcpInstanceNodes(self, nodes) ==
    IF nodes = <<>> THEN self
    ELSE LET next == CheckMcpInstanceNode(self, Head(nodes))
         IN IF next = self THEN CheckMcpInstanceNodes(self, Tail(nodes))
            ELSE CheckMcpInstanceNodes(next, Tail(nodes))

CheckMcpInstance(self, tree) == CheckMcpInstanceNodes(self, Walk(tree))

CategoryTags == {"tool", "resource", "prompt"}
ConventionalNames == {"mcp", "server", "app"}

\* GetDecoratorType without the test of the receiver's name
GetDecoratorTypeAnyReceiver(self, decorator) ==
    LET func == IF decorator.type = "Call" THEN decorator.func ELSE decorator
    IN IF func.type = "Attribute" /\ func.attr \in CategoryTags
          /\ func.value.type = "Name"
       THEN Some(func.attr)
       ELSE None

GetDecoratorType(self, decorator) ==
    LET func == IF decorator.type = "Call" THEN decorator.func ELSE decorator
    IN IF func.type = "Attribute" /\ func.attr \in CategoryTags
          /\ func.value.type = "Name"
          /\ \/ self.mcp_var_name # None /\ func.value.id = self.mcp_var_name[1]
             \/ func.value.id \in ConventionalNames
       THEN Some(func.attr)
       ELSE None

MinDocstringLength == 10
HttpVerbs == {"get", "post", "put", "delete", "request"}

\* CheckToolDocstring with the length test off by one
CheckToolDocstringOffByOne(self, node) ==
    LET docstring == GetDocstring(node)
    IN IF ~TruthyText(docstring)
       THEN AddError(self, "missing_docstring", node.lineno, Message(node.name, <<>>))
       ELSE IF Len(docstring[1]) <= MinDocstringLength
       THEN AddError(self, "short_docstring", node.lineno, Message(node.name, <<>>))
       ELSE self

\* _validate_tool, "Check for docstring (Oracle Text)"
CheckToolDocstring(self, node) ==
    LET docstring == GetDocstring(node)
    IN IF ~TruthyText(docstring)
       THEN AddError(self, "missing_docstring", node.lineno, Message(node.name, <<>>))
       ELSE IF Len(docstring[1]) < MinDocstringLength
       THEN AddError(self, "short_docstring", node.lineno, Message(node.name, <<>>))
       ELSE self

\* CheckSyncHttpCall without the break: one warning per attribute found
CheckSyncHttpCallPerOccurrence(self, node) ==
    LET subnodes == Walk(node)
        found == SelectSeq(subnodes,
                           LAMBDA n : n.type = "Attribute" /\ n.attr \in HttpVerbs)
    IN IF self.level \in {Some("level3"), Some("level4")}
          /\ node.type # "AsyncFunctionDef"
       THEN [self EXCEPT !.warnings =
                @ \o [i \in DOMAIN found |->
                         ValidationError("sync_http_call", node.lineno,
                                         Message(node.name, <<>>))]]
       ELSE self

\* _validate_tool, "Level 3+: Check for async when using HTTP calls"
CheckSyncHttpCall(self, node) ==
    LET subnodes == Walk(node)
    IN IF self.level \in {Some("level3"), Some("level4")}
          /\ node.type # "AsyncFunctionDef"
          /\ \E i \in DOMAIN subnodes :
                subnodes[i].type = "Attribute" /\ subnodes[i].attr \in HttpVerbs
       THEN AddWarning(self, "sync_http_call", node.lineno, Message(node.name, <<>>))
       ELSE self

ValidateTool(self, node) == CheckSyncHttpCall(CheckToolDocstring(self, node), node)

\* the loop over template_params of _validate_resource
RECURSIVE CheckTemplateParams(_, _, _, _)
CheckTemplateParams(self, node, template_params, func_params) ==
    IF template_params = <<>> THEN self
    ELSE LET param == Head(template_params)
             next == IF ~InList(param, func_params)
                     THEN AddError(self, "uri_param_mismatch", node.lineno,
                                   Message(node.name, param))
                     ELSE self
         IN IF next = self
            THEN CheckTemplateParams(self, node, Tail(template_params), func_params)
            ELSE CheckTemplateParams(next, node, Tail(template_params), func_params)

\* CheckResourceUri taking a first argument that is no string literal for a
\* missing URI
CheckResourceUriLiteralOnly(self, node, decorator) ==
    IF decorator.type = "Call" /\ decorator.args # <<>>
       /\ decorator.args[1].type = "Constant" /\ decorator.args[1].kind = "str"
    THEN LET uri == decorator.args[1].text
             s1 == IF ~Contains(uri, <<":", "/", "/">>)
                   THEN AddError(self, "invalid_resource_uri", node.lineno,
                                 Message(node.name, <<>>))
                   ELSE self
         IN IF HasChar(uri, "{") /\ HasChar(uri, "}")
            THEN CheckTemplateParams(s1, node, FindTemplateParams(uri), node.args.args)
            ELSE s1
    ELSE AddError(self, "missing_resource_uri", node.lineno, Message(node.name, <<>>))

\* _validate_resource, "Check that resource has a URI argument"
CheckResourceUri(self, node, decorator) ==
    IF decorator.type = "Call" /\ decorator.args # <<>> THEN
        LET uri_arg == decorator.args[1]
        IN IF uri_arg.type = "Constant" /\ uri_arg.kind = "str" THEN
               LET uri == uri_arg.text
                   s1 == IF ~Contains(uri, <<":", "/", "/">>)
                         THEN AddError(self, "invalid_resource_uri", node.lineno,
                                       Message(node.name, <<>>))
                         ELSE self
               IN IF HasChar(uri, "{") /\ HasChar(uri, "}")
                  THEN CheckTemplateParams(s1, node, FindTemplateParams(uri),
                                           node.args.args)
                  ELSE s1
           ELSE self
    ELSE AddError(self, "missing_resource_uri", node.lineno, Message(node.name, <<>>))

\* _validate_resource, "Check for docstring on resources too"
CheckResourceDocstring(self, node) ==
    IF ~TruthyText(GetDocstring(node))
    THEN AddWarning(self, "missing_resource_docstring", node.lineno,
                    Message(node.name, <<>>))
    ELSE self

ValidateResource(self, node, decorator) ==
    CheckResourceDocstring(CheckResourceUri(self, node, decorator), node)

\* CheckDecorators stopping at the first marker it recognizes
RECURSIVE CheckDecoratorsFirstOnly(_, _, _)
CheckDecoratorsFirstOnly(self, node, decorators) ==
    IF decorators = <<>> THEN self
    ELSE LET decorator == Head(decorators)
             decorator_type == GetDecoratorType(self, decorator)
         IN IF decorator_type = Some("tool")
            THEN ValidateTool([self EXCEPT !.tools_found = Append(@, node.name)], node)
            ELSE IF decorator_type = Some("resource")
            THEN ValidateResource(
                    [self EXCEPT !.resources_found = Append(@, node.name)],
                    node, decorator)
            ELSE IF decorator_type = Some("prompt")
            THEN [self EXCEPT !.prompts_found = Append(@, node.name)]
            ELSE CheckDecoratorsFirstOnly(self, node, Tail(decorators))

\* the loop over node.decorator_list of _check_decorated_functions
RECURSIVE CheckDecorators(_, _, _)
CheckDecorators(self, node, decorators) ==
    IF decorators = <<>> THEN self
    ELSE LET decorator == Head(decorators)
             decorator_type == GetDecoratorType(self, decorator)
             next ==
                IF decorator_type = Some("tool")
                THEN ValidateTool([self EXCEPT !.tools_found = Append(@, node.name)], node)
                ELSE IF decorator_type = Some("resource")
                THEN ValidateResource(
                        [self EXCEPT !.resources_found = Append(@, node.name)],
                        node, decorator)
                ELSE IF decorator_type = Some("prompt")
                THEN [self EXCEPT !.prompts_found = Append(@, node.name)]
                ELSE self
         IN IF next = self THEN CheckDecorators(self, node, Tail(decorators))
            ELSE CheckDecorators(next, node, Tail(decorators))

RECURSIVE CheckDecoratedNodes(_, _)
CheckDecoratedNodes(self, nodes) ==
    IF nodes = <<>> THEN self
    ELSE LET node == Head(nodes)
             next == IF node.type \in {"FunctionDef", "AsyncFunctionDef"}
                     THEN CheckDecorators(self, node, node.decorator_list)
                     ELSE self
         IN IF next = self THEN CheckDecoratedNodes(self, Tail(nodes))
            ELSE CheckDecoratedNodes(next, Tail(nodes))

CheckDecoratedFunctions(self, tree) == CheckDecoratedNodes(self, Walk(tree))

\* str(value) of a constant's value
Str(constant) ==
    IF constant.kind = "bytes" THEN <<"b", "'">> \o constant.text \o <<"'">>
    ELSE constant.text

\* any(pattern in code for pattern in patterns)
AnyInCode(patterns, code) == \E pattern \in patterns : InCode(pattern, code)

SecurityPatterns == {"is_relative_to", "resolve()", "is_safe_path"}
AsyncClientPatterns == {"AsyncClient", "async with httpx"}
CachingPatterns == {"_cache", "get_cached", "set_cached", "cache[", "lru_cache"}
TransportPatterns == {"transport=", "\"sse\"", "'sse'", "--transport"}
HealthPatterns == {"health://", "health_check", "health_status", "/health"}
ArgparsePatterns == {"argparse", "ArgumentParser", "add_argument"}
EnvPatterns == {"os.getenv", "os.environ", "dotenv"}

\* CheckLevel2Requirements reporting missing path security as an error
CheckLevel2RequirementsStrict(self, tree, code) ==
    LET nodes == Walk(tree)
        has_template_resource ==
            \E i \in DOMAIN nodes :
                /\ nodes[i].type \in {"FunctionDef", "AsyncFunctionDef"}
                /\ \E d \in DOMAIN nodes[i].decorator_list :
                     LET decorator == nodes[i].decorator_list[d]
                     IN /\ GetDecoratorType(self, decorator) = Some("resource")
                        /\ decorator.type = "Call" /\ decorator.args # <<>>
                        /\ decorator.args[1].type = "Constant"
                        /\ HasChar(Str(decorator.args[1]), "{")
        s1 == IF ~has_template_resource /\ self.resources_found # <<>>
              THEN AddWarning(self, "no_uri_template", 1, Message("", <<>>))
              ELSE self
        has_security ==
            \/ AnyInCode(SecurityPatterns, code)
            \/ InCode("..", code) /\ InCode("not", code)
    IN IF s1.resources_found # <<>> /\ ~has_security
       THEN AddError(s1, "missing_path_security", 1, Message("", <<>>))
       ELSE [s1 EXCEPT !.has_path_validation = TRUE]

CheckLevel2Requirements(self, tree, code) ==
    LET nodes == Walk(tree)
        has_template_resource ==
            \E i \in DOMAIN nodes :
                /\ nodes[i].type \in {"FunctionDef", "AsyncFunctionDef"}
                /\ \E d \in DOMAIN nodes[i].decorator_list :
                     LET decorator == nodes[i].decorator_list[d]
                     IN /\ GetDecoratorType(self, decorator) = Some("resource")
                        /\ decorator.type = "Call" /\ decorator.args # <<>>
                        /\ decorator.args[1].type = "Constant"
                        /\ HasChar(Str(decorator.args[1]), "{")
        s1 == IF ~has_template_resource /\ self.resources_found # <<>>
              THEN AddWarning(self, "no_uri_template", 1, Message("", <<>>))
              ELSE self
        has_security ==
            \/ AnyInCode(SecurityPatterns, code)
            \/ InCode("..", code) /\ InCode("not", code)
    IN IF s1.resources_found # <<>> /\ ~has_security
       THEN AddWarning(s1, "missing_path_security", 1, Message("", <<>>))
       ELSE [s1 EXCEPT !.has_path_validation = TRUE]

\* _check_level3_requirements, "Check for httpx"
CheckHttpxImport(self) ==
    IF ~self.has_httpx_import
    THEN AddError(self, "missing_httpx", 1, Message("", <<>>))
    ELSE self

\* CheckAsyncTools taking any async function for an async tool
CheckAsyncToolsAnyAsync(self, tree) ==
    LET nodes == Walk(tree)
        has_async_tool ==
            \E i \in DOMAIN nodes : nodes[i].type = "AsyncFunctionDef"
    IN IF self.tools_found # <<>> /\ ~has_async_tool
       THEN AddError(self, "no_async_tools", 1, Message("", <<>>))
       ELSE self

\* _check_level3_requirements, "Check for async tools"
CheckAsyncTools(self, tree) ==
    LET nodes == Walk(tree)
        has_async_tool ==
            \E i \in DOMAIN nodes :
                /\ nodes[i].type = "AsyncFunctionDef"
                /\ \E d \in DOMAIN nodes[i].decorator_list :
                     GetDecoratorType(self, nodes[i].decorator_list[d]) = Some("tool")
    IN IF self.tools_found # <<>> /\ ~has_async_tool
       THEN AddError(self, "no_async_tools", 1, Message("", <<>>))
       ELSE self

\* _check_level3_requirements, "Check for AsyncClient usage"
CheckAsyncClient(self, code) ==
    IF AnyInCode(AsyncClientPatterns, code)
    THEN [self EXCEPT !.has_async_client = TRUE]
    ELSE IF self.has_httpx_import
    THEN AddWarning(self, "no_async_client", 1, Message("", <<>>))
    ELSE self

\* _check_level3_requirements, "Check for caching"
CheckCaching(self, code) ==
    IF AnyInCode(CachingPatterns, code)
    THEN [self EXCEPT !.has_caching = TRUE]
    ELSE AddWarning(self, "no_caching", 1, Message("", <<>>))

\* _check_level3_requirements, "Check for error handling"
CheckErrorHandling(self, tree) ==
    LET nodes == Walk(tree)
        has_try_except == \E i \in DOMAIN nodes : nodes[i].type = "Try"
    IN IF ~has_try_except
       THEN AddWarning(self, "no_error_handling", 1, Message("", <<>>))
       ELSE self

CheckLevel3Requirements(self, tree, code) ==
    CheckErrorHandling(
        CheckCaching(
            CheckAsyncClient(
                CheckAsyncTools(CheckHttpxImport(self), tree),
                code),
            code),
        tree)

\* the level4 checks without the level3 checks after them
CheckLevel4RequirementsAlone(self, tree, code) ==
    LET s1 == IF ~AnyInCode(TransportPatterns, code)
              THEN AddWarning(self, "no_transport_config", 1, Message("", <<>>))
              ELSE self
        s2 == IF ~AnyInCode(HealthPatterns, code)
              THEN AddWarning(s1, "no_health_check", 1, Message("", <<>>))
              ELSE s1
    IN IF ~AnyInCode(ArgparsePatterns, code) /\ ~AnyInCode(EnvPatterns, code)
       THEN AddWarning(s2, "hardcoded_config", 1, Message("", <<>>))
       ELSE s2

CheckLevel4Requirements(self, tree, code) ==
    LET s1 == IF ~AnyInCode(TransportPatterns, code)
              THEN AddWarning(self, "no_transport_config", 1, Message("", <<>>))
              ELSE self
        s2 == IF ~AnyInCode(HealthPatterns, code)
              THEN AddWarning(s1, "no_health_check", 1, Message("", <<>>))
              ELSE s1
        s3 == IF ~AnyInCode(ArgparsePatterns, code) /\ ~AnyInCode(EnvPatterns, code)
              THEN AddWarning(s2, "hardcoded_config", 1, Message("", <<>>))
              ELSE s2
    IN CheckLevel3Requirements(s3, tree, code)

CheckLevelSpecific(self, tree, code) ==
    IF self.level = Some("level2") THEN CheckLevel2Requirements(self, tree, code)
    ELSE IF self.level = Some("level3") THEN CheckLevel3Requirements(self, tree, code)
    ELSE IF self.level = Some("level4") THEN CheckLevel4Requirements(self, tree, code)
    ELSE self

\* CheckEssentials reporting a missing instance whether or not the import is there
CheckEssentialsNoImportGuard(self) ==
    LET s1 == IF ~self.has_fastmcp_import
              THEN AddError(self, "missing_import", 1, Message("", <<>>))
              ELSE self
        s2 == IF ~s1.has_mcp_instance
              THEN AddError(s1, "missing_instance", 1, Message("", <<>>))
              ELSE s1
    IN IF s2.has_mcp_instance /\ s2.tools_found = <<>> /\ s2.resources_found = <<>>
       THEN AddError(s2, "empty_deck", 1, Message("", <<>>))
       ELSE s2

\* validate, "Check for missing essentials"
CheckEssentials(self) ==
    LET s1 == IF ~self.has_fastmcp_import
              THEN AddError(self, "missing_import", 1, Message("", <<>>))
              ELSE self
        s2 == IF ~s1.has_mcp_instance /\ s1.has_fastmcp_import
              THEN AddError(s1, "missing_instance", 1, Message("", <<>>))
              ELSE s1
    IN IF s2.has_mcp_instance /\ s2.tools_found = <<>> /\ s2.resources_found = <<>>
       THEN AddError(s2, "empty_deck", 1, Message("", <<>>))
       ELSE s2

\* the essentials checked before the level pack
PassesEssentialsFirst == <<"imports", "instance", "decorated", "essentials", "level">>

\* validate after a successful parse: the passes in the order validate runs them
Passes == <<"imports", "instance", "decorated", "level", "essentials">>

ValidatePass(pass, self, tree, code) ==
    CASE pass = "imports" -> CheckImports(self, tree)
      [] pass = "instance" -> CheckMcpInstance(self, tree)
      [] pass = "decorated" -> CheckDecoratedFunctions(self, tree)
      [] pass = "level" -> CheckLevelSpecific(self, tree, code)
      [] pass = "essentials" -> CheckEssentials(self)

RECURSIVE RunPasses(_, _, _, _)
RunPasses(self, k, tree, code) ==
    IF k > Len(Passes) THEN self
    ELSE LET next == ValidatePass(Passes[k], self, tree, code)
         IN IF next = self THEN RunPasses(self, k + 1, tree, code)
            ELSE RunPasses(next, k + 1, tree, code)

\* MCPValidator.validate(code, level) on the instance self, run without
\* interruption: the instance it leaves and the verdict it returns
ValidateRun(self, code, level) ==
    LET reset == ResetState(self, level)
        final == IF code.ok THEN RunPasses(reset, 1, code.tree, code)
                 ELSE SyntaxErrorCaught(reset, code)
    IN [self |-> final, verdict |-> BuildResponse(final)]

\* validate_code(code, level), run alone
ValidateCodeAlone(code, level) == ValidateRun(MCPValidator(level), code, None).verdict

(***************************************************************************)
(* State.  heap holds the MCPValidator instances (None: no instance at     *)
(* that address); call holds, per caller, the call in progress: the        *)
(* arguments, the instance validate runs on, and the position in validate. *)
(* db holds the module state of services/database.py: _db_service, _db_lock *)
(* and the DatabaseService objects constructed so far; frame holds, per    *)
(* thread, its position in get_database, the instance it got, and its last *)
(* call on that instance.                                                  *)
(***************************************************************************)
VARIABLES heap, call, db, frame

vars == <<heap, call, db, frame>>

dbvars == <<db, frame>>

NumThreads == 3
Threads == 1..NumThreads

\* no call on the instance yet
NoCall ==
    [name |-> "", user_id |-> "", level_id |-> "", phase_id |-> "",
     completed |-> FALSE, code_snapshot |-> None]

Resting == [pc |-> "idle", result |-> None, op |-> NoCall, got |-> <<>>]

NumCallers == 2
Callers == 1..NumCallers

EmptyCode == SourceCode({}, Module(<<>>))

Idle ==
    [pc |-> "idle", code |-> EmptyCode, level |-> None, arg |-> None,
     self |-> 0, pass |-> 0, verdict |-> None]

Init ==
    /\ heap = [i \in Callers |-> None]
    /\ call = [c \in Callers |-> Idle]
    /\ db = [service |-> None, lock |-> 0, objects |-> <<>>]
    /\ frame = [t \in Threads |-> Resting]

\* every call works on one module-level instance
SharedInstance(c) == 1

\* the address of the instance a call of validate_code by caller c constructs:
\* an instance of its own
NewInstance(c) == c

\* validate_code(code, level): MCPValidator(level=level), then .validate(code)
ValidateCode(c, code, level) ==
    /\ call[c].pc = "idle"
    /\ UNCHANGED dbvars
    /\ heap' = [heap EXCEPT ![NewInstance(c)] = Some(MCPValidator(level))]
    /\ call' = [call EXCEPT ![c] =
                    [pc |-> "validate", code |-> code, level |-> level, arg |-> None,
                     self |-> NewInstance(c), pass |-> 0, verdict |-> None]]

\* MCPValidator(level=level), kept by the caller for several validate calls
Construct(c, level) ==
    /\ call[c].pc = "idle"
    /\ UNCHANGED dbvars
    /\ heap' = [heap EXCEPT ![NewInstance(c)] = Some(MCPValidator(level))]
    /\ call' = [call EXCEPT ![c] =
                    [Idle EXCEPT !.pc = "ready", !.level = level, !.self = NewInstance(c)]]

\* instance.validate(code, level) on a kept instance
Validate(c, code, level) ==
    /\ call[c].pc = "ready"
    /\ call' = [call EXCEPT ![c] =
                    [@ EXCEPT !.pc = "validate", !.code = code, !.arg = level,
                              !.pass = 0, !.verdict = None]]
    /\ UNCHANGED <<heap, db, frame>>

\* validate: "Reset state"
Reset(c) ==
    /\ call[c].pc = "validate"
    /\ UNCHANGED dbvars
    /\ heap' = [heap EXCEPT ![call[c].self] = Some(ResetState(@[1], call[c].arg))]
    /\ call' = [call EXCEPT ![c].pc = "parse"]

\* validate: ast.parse(code), and the except branch
Parse(c) ==
    /\ call[c].pc = "parse"
    /\ UNCHANGED dbvars
    /\ IF call[c].code.ok
       THEN /\ call' = [call EXCEPT ![c].pc = "passes", ![c].pass = 1]
            /\ UNCHANGED heap
       ELSE /\ heap' = [heap EXCEPT ![call[c].self] =
                            Some(SyntaxErrorCaught(@[1], call[c].code))]
            /\ call' = [call EXCEPT ![c].pc = "respond"]

\* validate: one of the passes over the tree
RunPass(c) ==
    /\ call[c].pc = "passes"
    /\ UNCHANGED dbvars
    /\ heap' = [heap EXCEPT ![call[c].self] =
                    Some(ValidatePass(Passes[call[c].pass], @[1],
                                      call[c].code.tree, call[c].code))]
    /\ call' = [call EXCEPT
                    ![c].pass = @ + 1,
                    ![c].pc = IF call[c].pass = Len(Passes) THEN "respond" ELSE @]

\* validate: return self._build_response()
Respond(c) ==
    /\ call[c].pc = "respond"
    /\ call' = [call EXCEPT ![c].pc = "done",
                            ![c].verdict = Some(BuildResponse(heap[call[c].self][1]))]
    /\ UNCHANGED <<heap, db, frame>>

\* validate_code returns: the verdict goes to the caller, and the instance is
\* collected once no call refers to it
Return(c) ==
    /\ call[c].pc = "done"
    /\ UNCHANGED dbvars
    /\ heap' = IF \E d \in Callers \ {c} : call[d].pc # "idle" /\ call[d].self = call[c].self
               THEN heap
               ELSE [heap EXCEPT ![call[c].self] = None]
    /\ call' = [call EXCEPT ![c] = Idle]

\* validate returns to the holder of a kept instance
ReturnToHolder(c) ==
    /\ call[c].pc = "done"
    /\ call' = [call EXCEPT ![c].pc = "ready"]
    /\ UNCHANGED <<heap, db, frame>>

(***************************************************************************)
(* The codes submitted.  Units are assembled from import statements,       *)
(* assignments and function definitions, in that textual order.            *)
(***************************************************************************)
MaxFns == 2          \* function definitions per structural unit
MaxDocLen == 10      \* characters of a docstring after its leading blanks
MaxLead == 1         \* leading blanks of a docstring
MaxLine == 2         \* line a SyntaxError is reported at

\* a text of n characters c
Repeat(c, n) == [i \in 1..n |-> c]

Str1(c) == Constant("str", <<c>>)
DocStmt(lead, len) == Expr(Constant("str", Repeat(" ", lead) \o Repeat("d", len)))

ImportMenu ==
    { <<>>,
      <<ImportFrom(Some("fastmcp"), <<"FastMCP">>)>>,
      <<Import(<<"fastmcp">>)>>,
      <<ImportFrom(Some("fastmcp"), <<"Context">>)>>,
      <<ImportFrom(Some("fastmcp"), <<"Context", "FastMCP">>), Import(<<"os", "httpx">>)>>,
      <<ImportFrom(Some("httpx._client"), <<"Client">>)>>,
      <<ImportFrom(None, <<"FastMCP">>)>> }

NewFastMCP == Call(Name("FastMCP"), <<Str1("x")>>)

AssignMenu ==
    { <<>>,
      <<Assign(<<Name("mcp")>>, NewFastMCP)>>,
      <<Assign(<<Name("deck")>>, NewFastMCP)>>,
      <<Assign(<<Attribute(Name("self"), "deck")>>, NewFastMCP)>>,
      <<Assign(<<Name("deck")>>, Call(Attribute(Name("fastmcp"), "FastMCP"), <<>>))>>,
      <<Assign(<<Name("deck")>>, Call(Name("Other"), <<>>))>>,
      <<Assign(<<Name("deck")>>, Name("FastMCP"))>>,
      <<Assign(<<Name("deck")>>, NewFastMCP), Assign(<<Name("hub")>>, NewFastMCP)>>,
      <<Try(<<Assign(<<Name("deck")>>, NewFastMCP)>>), Assign(<<Name("hub")>>, NewFastMCP)>> }

Marker(receiver, tag, args) == Call(Attribute(Name(receiver), tag), args)

Uri(text) == Constant("str", text)
PlainUri == Uri(<<"f", ":", "/", "/", "p">>)

NoArgs == Arguments(<<>>, <<>>, <<>>)

LongDoc == DocStmt(0, MinDocstringLength)

HttpCall == Expr(Call(Attribute(Name("requests"), "get"), <<>>))
HttpCalls == <<HttpCall, Expr(Call(Attribute(Name("requests"), "post"), <<>>))>>

\* the functions structural units are assembled from; line numbers are set
\* when a unit is assembled
SmallFnMenu ==
    { FunctionDef("cast", 0, NoArgs, <<LongDoc>>, <<Marker("mcp", "tool", <<>>)>>),
      FunctionDef("draw", 0, NoArgs, <<Pass>>, <<Marker("deck", "tool", <<>>)>>),
      AsyncFunctionDef("scry", 0, NoArgs, <<LongDoc>>, <<Marker("mcp", "resource", <<PlainUri>>)>>),
      FunctionDef("tutor", 0, NoArgs, <<LongDoc>>, <<Marker("mcp", "prompt", <<>>)>>) }

LineOf(k) == 5 + 4 * k

\* the sequences of at most n functions of S, the k-th on line LineOf(k)
RECURSIVE FnSeqs(_, _)
FnSeqs(S, n) ==
    IF n = 0 THEN {<<>>}
    ELSE LET shorter == FnSeqs(S, n - 1)
         IN shorter \cup
            { Append(fs, [f EXCEPT !.lineno = LineOf(Len(fs) + 1)]) :
                fs \in {t \in shorter : Len(t) = n - 1}, f \in S }

TextMenu ==
    { {},
      {"async with httpx.AsyncClient", "lru_cache", "if '..' not in path"} }

Unit(text, imports, assigns, fns) == SourceCode(text, Module(imports \o assigns \o fns))

CoreImports ==
    { <<>>,
      <<ImportFrom(Some("fastmcp"), <<"FastMCP">>)>>,
      <<ImportFrom(Some("fastmcp"), <<"Context", "FastMCP">>), Import(<<"os", "httpx">>)>> }

CoreAssigns ==
    { <<>>,
      <<Assign(<<Name("mcp")>>, NewFastMCP)>>,
      <<Assign(<<Name("deck")>>, NewFastMCP)>>,
      <<Assign(<<Attribute(Name("self"), "deck")>>, NewFastMCP)>>,
      <<Assign(<<Name("deck")>>, NewFastMCP), Assign(<<Name("hub")>>, NewFastMCP)>> }

\* every combination of imports and assignments with at most one function,
\* and the core ones with up to MaxFns functions
StructCodes ==
    { Unit({}, imports, assigns, fns) :
        imports \in ImportMenu, assigns \in AssignMenu,
        fns \in FnSeqs(SmallFnMenu, 1) }
    \cup
    { Unit({}, imports, assigns, fns) :
        imports \in CoreImports, assigns \in CoreAssigns,
        fns \in FnSeqs(SmallFnMenu, MaxFns) }

\* the texts the substring probes are tried on: none of the probed strings,
\* one of them, or several
ProbeTexts ==
    TextMenu \cup
    { {"is_relative_to"}, {"path.resolve()"}, {"is_safe_path"}, {".."}, {"not"},
      {"if '..' not in path"}, {"httpx.AsyncClient"}, {"async with httpx"},
      {"lru_cache"} }

\* the minimal units, without and with the httpx import, with every text
TextCodes ==
    { Unit(text, imports, <<Assign(<<Name("mcp")>>, NewFastMCP)>>, fns) :
        text \in ProbeTexts,
        imports \in { <<ImportFrom(Some("fastmcp"), <<"FastMCP">>)>>,
                      <<ImportFrom(Some("fastmcp"), <<"FastMCP">>), Import(<<"httpx">>)>> },
        fns \in FnSeqs(SmallFnMenu, 1) }

\* a unit with httpx imported, a Tool defined with async def and a Tool
\* defined with def that makes HTTP calls
MixedUnit ==
    Unit({}, <<ImportFrom(Some("fastmcp"), <<"FastMCP">>), Import(<<"httpx">>)>>,
         <<Assign(<<Name("mcp")>>, NewFastMCP)>>,
         <<AsyncFunctionDef("cast", LineOf(1), NoArgs, <<LongDoc>>,
                            <<Marker("mcp", "tool", <<>>)>>),
           FunctionDef("draw", LineOf(2), NoArgs, <<LongDoc>> \o HttpCalls,
                       <<Marker("mcp", "tool", <<>>)>>)>>)

\* units without import, assignment or function definition
PlainCodes ==
    { SourceCode({}, Module(body)) :
        body \in { <<Pass>>, <<Expr(Call(Name("print"), <<Str1("x")>>))>> } }

\* units that call the constructor twice, with one marked function before,
\* between or after the two assignments
RebindAssigns ==
    { Assign(<<Name("deck")>>, NewFastMCP),
      Assign(<<Name("hub")>>, NewFastMCP),
      Assign(<<Attribute(Name("self"), "hub")>>, NewFastMCP),
      Try(<<Assign(<<Name("hub")>>, NewFastMCP)>>) }

RebindFns ==
    { FunctionDef("draw", LineOf(1), NoArgs, <<LongDoc>>, <<Marker(receiver, "tool", <<>>)>>) :
        receiver \in {"deck", "hub", "mcp"} }

RebindCodes ==
    { SourceCode({}, Module(<<ImportFrom(Some("fastmcp"), <<"FastMCP">>)>> \o body)) :
        body \in UNION { { <<fn, first, second>>, <<first, fn, second>>, <<first, second, fn>> } :
                            first \in RebindAssigns, second \in RebindAssigns,
                            fn \in RebindFns } }

BrokenCodes ==
    { BrokenCode(text, lineno, "invalid syntax") : text \in TextMenu, lineno \in 1..MaxLine }

\* the bodies a function starts with: no docstring, a leading constant that is
\* no string, or a docstring
DocMenu ==
    { <<Pass>>, <<Expr(Constant("int", <<"1">>))>> }
    \cup { <<DocStmt(lead, len)>> : lead \in 0..MaxLead, len \in 0..MaxDocLen }

ToolMarkerMenu ==
    { <<Marker("mcp", "tool", <<>>)>>,
      <<Attribute(Name("mcp"), "tool")>>,
      <<Marker("deck", "tool", <<>>)>>,
      <<Call(Attribute(Attribute(Name("self"), "mcp"), "tool"), <<>>)>>,
      <<Call(Name("tool"), <<>>)>>,
      <<Marker("mcp", "cast", <<>>)>>,
      <<Marker("mcp", "tool", <<>>), Marker("server", "tool", <<>>)>>,
      <<Marker("app", "prompt", <<>>), Marker("mcp", "tool", <<>>)>> }

ToolBodies ==
    DocMenu \cup { doc \o <<HttpCall>> : doc \in {<<Pass>>, <<LongDoc>>} }
            \cup { <<LongDoc>> \o HttpCalls }

ToolFns ==
    { [type |-> type, name |-> "cast", lineno |-> LineOf(1), args |-> NoArgs,
       body |-> body, decorator_list |-> markers] :
        type \in {"FunctionDef", "AsyncFunctionDef"}, body \in ToolBodies,
        markers \in ToolMarkerMenu }

UriMenu ==
    { <<"f", ":", "/", "/", "p">>,
      <<"d">>,
      <<>>,
      <<"f", ":", "/", "/", "{", "a", "}">>,
      <<"f", ":", "/", "/", "{", "a", "}", "/", "{", "i", "d", "}">>,
      <<"f", ":", "/", "/", "{", "i", "d", "}", "/", "{", "i", "d", "}">>,
      <<"{", "a", "}">>,
      <<"f", ":", "/", "/", "{", "}">>,
      <<"f", ":", "/", "/", "{", "a">>,
      <<"f", ":", "/", "/", "}", "a", "{">>,
      <<"f", ":", "/", "/", "{", "a", "/", "b", "}">> }

ResourceMarkerMenu ==
    { <<Marker("mcp", "resource", <<Uri(u)>>)>> : u \in UriMenu }
    \cup
    { <<Attribute(Name("mcp"), "resource")>>,
      <<Marker("mcp", "resource", <<>>)>>,
      <<Marker("mcp", "resource", <<Name("uri")>>)>>,
      <<Marker("mcp", "resource", <<Constant("bytes", <<"f", ":", "/", "/", "{", "a", "}">>)>>)>>,
      <<Marker("mcp", "resource", <<Name("uri"), PlainUri>>)>>,
      <<Marker("deck", "resource", <<Uri(<<"d">>)>>)>>,
      <<Marker("mcp", "resource", <<Uri(<<"d">>)>>), Marker("mcp", "resource", <<>>)>> }

ParamA == <<"a">>
ParamId == <<"i", "d">>

ArgsMenu ==
    { NoArgs,
      Arguments(<<>>, <<ParamA>>, <<>>),
      Arguments(<<>>, <<ParamA, ParamId>>, <<>>),
      Arguments(<<>>, <<ParamA>>, <<ParamId>>),
      Arguments(<<ParamId>>, <<ParamA>>, <<>>) }

ResourceFns ==
    { FunctionDef("scry", LineOf(1), args, doc, markers) :
        args \in ArgsMenu, doc \in {<<Pass>>, <<LongDoc>>}, markers \in ResourceMarkerMenu }

\* one function of every shape, in a unit that binds the host to a name and
\* in one that imports httpx too and binds the host to an attribute
DeclCodes ==
    { Unit({}, <<ImportFrom(Some("fastmcp"), <<"FastMCP">>)>>,
           <<Assign(<<Name("deck")>>, NewFastMCP)>>, <<fn>>) :
        fn \in ToolFns \cup ResourceFns }
    \cup
    { Unit({}, <<ImportFrom(Some("fastmcp"), <<"FastMCP">>), Import(<<"httpx">>)>>,
           <<Assign(<<Attribute(Name("self"), "deck")>>, NewFastMCP)>>, <<fn>>) :
        fn \in ToolFns \cup ResourceFns }

Codes ==
    StructCodes \cup TextCodes \cup {MixedUnit} \cup PlainCodes \cup RebindCodes
        \cup BrokenCodes \cup DeclCodes

\* the level arguments: unset, the three packs, and a level no pack exists for
Levels == {None, Some("level2"), Some("level3"), Some("level4"), Some("level9")}

(***************************************************************************)
(* Spec: the service.  The router's handler is a coroutine without an      *)
(* await: requests are served one at a time, each by one uninterrupted     *)
(* call of validate_code.                                                  *)
(***************************************************************************)
\* POST /validate: validate_mcp_code(request, level) returns
\* validate_code(request.code, level=level)
ValidateMcpCode(c) ==
    /\ call[c].pc = "idle"
    /\ \E code \in Codes, level \in Levels :
         call' = [call EXCEPT ![c] =
                    [Idle EXCEPT !.pc = "done", !.code = code, !.level = level,
                                 !.verdict = Some(ValidateCodeAlone(code, level))]]
    /\ UNCHANGED <<heap, db, frame>>

\* the response is sent
SendResponse(c) ==
    /\ call[c].pc = "done"
    /\ call' = [call EXCEPT ![c] = Idle]
    /\ UNCHANGED <<heap, db, frame>>

Next ==
    \/ ValidateMcpCode(1)
    \/ SendResponse(1)

Spec == Init /\ [][Next]_vars

(***************************************************************************)
(* SpecThreads: validate_code called from several threads, the steps of    *)
(* the calls interleaved.                                                  *)
(***************************************************************************)
MinimalUnit ==
    Unit({}, <<ImportFrom(Some("fastmcp"), <<"FastMCP">>)>>,
         <<Assign(<<Name("mcp")>>, NewFastMCP)>>,
         <<FunctionDef("cast", LineOf(1), NoArgs, <<LongDoc>>, <<Marker("mcp", "tool", <<>>)>>)>>)

UndocumentedUnit ==
    Unit({"lru_cache"}, <<Import(<<"fastmcp">>), Import(<<"httpx">>)>>,
         <<Assign(<<Name("deck")>>, NewFastMCP)>>,
         <<FunctionDef("draw", LineOf(1), NoArgs, <<Pass>>, <<Marker("deck", "tool", <<>>)>>),
           FunctionDef("scry", LineOf(2), NoArgs, <<Pass>>, <<Marker("deck", "resource", <<>>)>>)>>)

ThreadCodes == {MinimalUnit, UndocumentedUnit, BrokenCode({}, 1, "invalid syntax")}
ThreadLevels == {None, Some("level3")}

NextThreads ==
    \E c \in Callers :
        \/ \E code \in ThreadCodes, level \in ThreadLevels : ValidateCode(c, code, level)
        \/ Reset(c)
        \/ Parse(c)
        \/ RunPass(c)
        \/ Respond(c)
        \/ Return(c)

SpecThreads == Init /\ [][NextThreads]_vars

(***************************************************************************)
(* SpecReuse: one MCPValidator instance kept and validate called on it     *)
(* again and again.                                                        *)
(***************************************************************************)
NextReuse ==
    \/ \E level \in ThreadLevels : Construct(1, level)
    \/ \E code \in ThreadCodes, level \in Levels : Validate(1, code, level)
    \/ Reset(1)
    \/ Parse(1)
    \/ RunPass(1)
    \/ Respond(1)
    \/ ReturnToHolder(1)

SpecReuse == Init /\ [][NextReuse]_vars

(***************************************************************************)
(* services/database.py: the DatabaseService with its in-memory store, and *)
(* get_database.  A dict is a function from the keys to Some(value), None  *)
(* for a key the dict does not hold.                                       *)
(***************************************************************************)
UserIds == {"ada", "bob"}
LevelIds == {"level1", "level2"}
PhaseIds == {"phase1"}
Snapshots == {None, Some(""), Some("x = 1")}

ProgressEntry(level_id, phase_id, completed, code_snapshot) ==
    [level_id |-> level_id, phase_id |-> phase_id, completed |-> completed,
     code_snapshot |-> code_snapshot]

\* DatabaseService(): no Supabase settings, _init_client leaves _client None
DatabaseService == [client |-> None, memory_store |-> [u \in UserIds |-> None]]

IsConnected(self) == self.client # None

\* get_progress(user_id), in-memory: list(self._memory_store.get(user_id, []))
GetProgress(self, user_id) ==
    IF self.memory_store[user_id] = None THEN <<>> ELSE self.memory_store[user_id][1]

\* the first entry of the list with this level_id and phase_id, 0 for none
FindEntry(entries, level_id, phase_id) ==
    LET hits == {i \in DOMAIN entries :
                    entries[i].level_id = level_id /\ entries[i].phase_id = phase_id}
    IN  IF hits = {} THEN 0 ELSE CHOOSE i \in hits : \A j \in hits : i <= j

\* upsert_progress with the snapshot of an existing entry replaced whatever is given
UpsertProgressReplacing(self, user_id, level_id, phase_id, completed, code_snapshot) ==
    IF IsConnected(self) THEN self
    ELSE LET entries == GetProgress(self, user_id)
             existing == FindEntry(entries, level_id, phase_id)
             updated ==
                IF existing # 0
                THEN [entries EXCEPT ![existing].completed = completed,
                                     ![existing].code_snapshot = code_snapshot]
                ELSE Append(entries,
                            ProgressEntry(level_id, phase_id, completed, code_snapshot))
         IN  [self EXCEPT !.memory_store[user_id] = Some(updated)]

\* upsert_progress(user_id, level_id, phase_id, completed, code_snapshot), in-memory
UpsertProgress(self, user_id, level_id, phase_id, completed, code_snapshot) ==
    IF IsConnected(self) THEN self
    ELSE LET entries == GetProgress(self, user_id)
             existing == FindEntry(entries, level_id, phase_id)
             updated ==
                IF existing # 0
                THEN [entries EXCEPT
                        ![existing].completed = completed,
                        ![existing].code_snapshot =
                            IF Truthy(code_snapshot) THEN code_snapshot ELSE @]
                ELSE Append(entries,
                            ProgressEntry(level_id, phase_id, completed, code_snapshot))
         IN  [self EXCEPT !.memory_store[user_id] = Some(updated)]

\* get_database() is called
GetDatabase(t) ==
    /\ frame[t].pc = "idle"
    /\ frame' = [frame EXCEPT ![t] = [Resting EXCEPT !.pc = "check"]]
    /\ UNCHANGED <<heap, call, db>>

\* if _db_service is None: (outside the lock)
CheckService(t) ==
    /\ frame[t].pc = "check"
    /\ frame' = [frame EXCEPT ![t].pc = IF db.service = None THEN "acquire" ELSE "return"]
    /\ UNCHANGED <<heap, call, db>>

\* with _db_lock: entered
AcquireLock(t) ==
    /\ frame[t].pc = "acquire"
    /\ db.lock = 0
    /\ db' = [db EXCEPT !.lock = t]
    /\ frame' = [frame EXCEPT ![t].pc = "recheck"]
    /\ UNCHANGED <<heap, call>>

\* get_database without the test under the lock
RecheckServiceSkipped(t) ==
    /\ frame[t].pc = "recheck"
    /\ frame' = [frame EXCEPT ![t].pc = "construct"]
    /\ UNCHANGED <<heap, call, db>>

\* if _db_service is None: (under the lock)
RecheckService(t) ==
    /\ frame[t].pc = "recheck"
    /\ frame' = [frame EXCEPT ![t].pc = IF db.service = None THEN "construct" ELSE "release"]
    /\ UNCHANGED <<heap, call, db>>

\* DatabaseService() is constructed
ConstructService(t) ==
    /\ frame[t].pc = "construct"
    /\ db' = [db EXCEPT !.objects = Append(@, DatabaseService)]
    /\ frame' = [frame EXCEPT ![t].pc = "assign", ![t].result = Some(Len(db.objects) + 1)]
    /\ UNCHANGED <<heap, call>>

\* _db_service = the instance constructed
AssignService(t) ==
    /\ frame[t].pc = "assign"
    /\ db' = [db EXCEPT !.service = frame[t].result]
    /\ frame' = [frame EXCEPT ![t].pc = "release", ![t].result = None]
    /\ UNCHANGED <<heap, call>>

\* with _db_lock: left
ReleaseLock(t) ==
    /\ frame[t].pc = "release"
    /\ db' = [db EXCEPT !.lock = 0]
    /\ frame' = [frame EXCEPT ![t].pc = "return"]
    /\ UNCHANGED <<heap, call>>

\* return _db_service
ReturnService(t) ==
    /\ frame[t].pc = "return"
    /\ frame' = [frame EXCEPT ![t].pc = "done", ![t].result = db.service]
    /\ UNCHANGED <<heap, call, db>>

\* the caller lets go of what get_database returned
Leave(t) ==
    /\ frame[t].pc = "done"
    /\ frame' = [frame EXCEPT ![t] = Resting]
    /\ UNCHANGED <<heap, call, db>>

\* db.upsert_progress(...) on the instance get_database returned
CallUpsertProgress(t, user_id, level_id, phase_id, completed, code_snapshot) ==
    /\ frame[t].pc = "done"
    /\ db' = [db EXCEPT !.objects[frame[t].result[1]] =
                    UpsertProgress(@, user_id, level_id, phase_id, completed, code_snapshot)]
    /\ frame' = [frame EXCEPT
                    ![t].op = [name |-> "upsert_progress", user_id |-> user_id,
                               level_id |-> level_id, phase_id |-> phase_id,
                               completed |-> completed, code_snapshot |-> code_snapshot],
                    ![t].got = <<>>]
    /\ UNCHANGED <<heap, call>>

\* db.get_progress(user_id) on the instance get_database returned
CallGetProgress(t, user_id) ==
    /\ frame[t].pc = "done"
    /\ frame' = [frame EXCEPT
                    ![t].op = [NoCall EXCEPT !.name = "get_progress", !.user_id = user_id],
                    ![t].got = GetProgress(db.objects[frame[t].result[1]], user_id)]
    /\ UNCHANGED <<heap, call, db>>

(***************************************************************************)
(* SpecSingleton: get_database called from several threads, the steps of   *)
(* the calls interleaved.                                                  *)
(***************************************************************************)
NextSingleton ==
    \E t \in Threads :
        \/ GetDatabase(t)
        \/ CheckService(t)
        \/ AcquireLock(t)
        \/ RecheckService(t)
        \/ ConstructService(t)
        \/ AssignService(t)
        \/ ReleaseLock(t)
        \/ ReturnService(t)
        \/ Leave(t)

SpecSingleton == Init /\ [][NextSingleton]_vars

(***************************************************************************)
(* SpecProgress: one caller gets the database and calls upsert_progress    *)
(* and get_progress on it, one call after the other.                       *)
(***************************************************************************)
NextProgress ==
    \/ GetDatabase(1)
    \/ CheckService(1)
    \/ AcquireLock(1)
    \/ RecheckService(1)
    \/ ConstructService(1)
    \/ AssignService(1)
    \/ ReleaseLock(1)
    \/ ReturnService(1)
    \/ \E user_id \in UserIds, level_id \in LevelIds, phase_id \in PhaseIds,
          completed \in BOOLEAN, code_snapshot \in Snapshots :
         CallUpsertProgress(1, user_id, level_id, phase_id, completed, code_snapshot)
    \/ \E user_id \in UserIds : CallGetProgress(1, user_id)
    \/ Leave(1)

SpecProgress == Init /\ [][NextProgress]_vars

(***************************************************************************)
(* What the claims are stated in.                                          *)
(***************************************************************************)
Finished(c) == call[c].pc = "done"
VerdictOf(c) == call[c].verdict[1]

\* the analyzer as validate_code(code, level) leaves it
AnalyzerOf(c) == ValidateRun(MCPValidator(call[c].level), call[c].code, None).self

HasError(errors, type) == \E i \in DOMAIN errors : errors[i].type = type

CountType(errors, type) ==
    Cardinality({i \in DOMAIN errors : errors[i].type = type})

CountAt(errors, type, line) ==
    Cardinality({i \in DOMAIN errors : errors[i].type = type /\ errors[i].line = line})

IsFunction(node) == node.type \in {"FunctionDef", "AsyncFunctionDef"}

\* the markers of function f that the analyzer takes for the category tag
MarkersOf(analyzer, f, tag) ==
    {d \in DOMAIN f.decorator_list :
        GetDecoratorType(analyzer, f.decorator_list[d]) = Some(tag)}

\* the unit imports FastMCP from fastmcp, or imports fastmcp
ImportsFastMCP(tree) ==
    LET nodes == Walk(tree)
    IN \E i \in DOMAIN nodes :
          \/ /\ nodes[i].type = "ImportFrom"
             /\ nodes[i].module = Some("fastmcp")
             /\ InList("FastMCP", nodes[i].names)
          \/ /\ nodes[i].type = "Import"
             /\ InList("fastmcp", nodes[i].names)

\* an assignment whose right-hand side calls FastMCP or <something>.FastMCP
IsConstructorAssign(node) ==
    /\ node.type = "Assign"
    /\ node.value.type = "Call"
    /\ \/ node.value.func.type = "Name" /\ node.value.func.id = "FastMCP"
       \/ node.value.func.type = "Attribute" /\ node.value.func.attr = "FastMCP"

HasConstructorAssign(tree) ==
    LET nodes == Walk(tree) IN \E i \in DOMAIN nodes : IsConstructorAssign(nodes[i])

\* some constructor-call assignment has a plain name on its left: a host
\* binding name is resolved
ResolvesBindingName(tree) ==
    LET nodes == Walk(tree)
    IN \E i \in DOMAIN nodes :
          /\ IsConstructorAssign(nodes[i])
          /\ nodes[i].targets # <<>>
          /\ nodes[i].targets[1].type = "Name"

(***************************************************************************)
(* C1: in every verdict, valid is true exactly when the errors list is     *)
(* empty; warnings the analyzer collected do not change valid.             *)
(***************************************************************************)
C1_ValidIffNoErrors ==
    \A c \in Callers :
        Finished(c) => (VerdictOf(c).valid <=> (VerdictOf(c).errors = <<>>))

\* a verdict that is valid although the analyzer collected warnings
C1_ValidWithWarnings ==
    \E c \in Callers :
        /\ Finished(c)
        /\ VerdictOf(c).valid
        /\ AnalyzerOf(c).warnings # <<>>

(***************************************************************************)
(* C2 (as claimed): on one instance, validate(code, level) returns the     *)
(* verdict a fresh instance returns for the same (code, level), whatever   *)
(* calls were made on the instance before.                                 *)
(***************************************************************************)
C2_SameAsFreshInstance ==
    Finished(1) =>
        VerdictOf(1) =
            ValidateRun(MCPValidator(call[1].level), call[1].code, call[1].arg).verdict

(***************************************************************************)
(* C3: when calls of validate_code run concurrently, their steps           *)
(* interleaved, each returns the verdict it returns when run alone.        *)
(***************************************************************************)
C3_NoCrossContamination ==
    \A c \in Callers :
        Finished(c) => VerdictOf(c) = ValidateCodeAlone(call[c].code, call[c].level)

\* one call has returned errors while another call, with another input, is
\* between two of its passes
C3_FinishedBesideRunning ==
    \E c \in Callers, d \in Callers :
        /\ c # d
        /\ Finished(c)
        /\ VerdictOf(c).errors # <<>>
        /\ call[d].pc = "passes" /\ call[d].pass > 2
        /\ <<call[d].code, call[d].level>> # <<call[c].code, call[c].level>>
        /\ ValidateCodeAlone(call[d].code, call[d].level) # VerdictOf(c)

(***************************************************************************)
(* C4 (as claimed): when parsing fails the verdict has valid = false,      *)
(* exactly one error, of type syntax_error, an empty warnings list, empty  *)
(* found lists and all three feature flags false.                          *)
(***************************************************************************)
C4_SyntaxErrorVerdict ==
    \A c \in Callers :
        Finished(c) /\ ~call[c].code.ok =>
            LET v == VerdictOf(c)
            IN /\ v.valid = FALSE
               /\ Len(v.errors) = 1
               /\ v.errors[1].type = "syntax_error"
               /\ v.tools_found = <<>>
               /\ v.resources_found = <<>>
               /\ v.prompts_found = <<>>
               /\ "warnings" \in DOMAIN v /\ v.warnings = <<>>
               /\ {"has_async", "has_caching", "has_security"} \subseteq DOMAIN v
               /\ ~v.has_async /\ ~v.has_caching /\ ~v.has_security

(***************************************************************************)
(* C5: the order of the errors list.                                       *)
(***************************************************************************)
BaseErrors == {"missing_import", "missing_instance", "empty_deck"}
DeclarationErrors ==
    {"missing_docstring", "short_docstring", "missing_resource_uri",
     "invalid_resource_uri", "uri_param_mismatch"}
LevelErrors == {"missing_httpx", "no_async_tools"}

\* every error of a kind in first precedes every error of a kind in second
Precede(errors, first, second) ==
    \A i \in DOMAIN errors, j \in DOMAIN errors :
        errors[i].type \in second /\ errors[j].type \in first => j < i

\* C5 (as claimed): base structural errors precede per-declaration errors,
\* which precede level-pack errors.
C5_BaseFirst ==
    \A c \in Callers :
        Finished(c) =>
            /\ Precede(VerdictOf(c).errors, BaseErrors, DeclarationErrors)
            /\ Precede(VerdictOf(c).errors, DeclarationErrors, LevelErrors)

\* C5 (amended): per-declaration errors precede level-pack errors, which
\* precede base structural errors.
C5_BaseLast ==
    \A c \in Callers :
        Finished(c) =>
            /\ Precede(VerdictOf(c).errors, DeclarationErrors, LevelErrors)
            /\ Precede(VerdictOf(c).errors, LevelErrors, BaseErrors)
            /\ Precede(VerdictOf(c).errors, DeclarationErrors, BaseErrors)

\* a verdict with an error of each of the three groups
C5_AllThreeGroups ==
    \E c \in Callers :
        /\ Finished(c)
        /\ \A group \in {BaseErrors, DeclarationErrors, LevelErrors} :
              \E i \in DOMAIN VerdictOf(c).errors : VerdictOf(c).errors[i].type \in group

(***************************************************************************)
(* C6: when missing_instance is reported.                                  *)
(***************************************************************************)
\* C6 (as claimed): missing_instance is among the errors exactly when the
\* import is detected and no host binding name is resolved.
C6_NoResolvedName ==
    \A c \in Callers :
        Finished(c) /\ call[c].code.ok =>
            (HasError(VerdictOf(c).errors, "missing_instance")
                <=> /\ ImportsFastMCP(call[c].code.tree)
                    /\ ~ResolvesBindingName(call[c].code.tree))

\* C6 (amended): missing_instance is among the errors exactly when the import
\* is detected and the unit has no constructor-call assignment at all,
\* whatever stands on the left of it; and it is reported at most once.
C6_NoConstructorAssign ==
    \A c \in Callers :
        Finished(c) /\ call[c].code.ok =>
            /\ HasError(VerdictOf(c).errors, "missing_instance")
                <=> /\ ImportsFastMCP(call[c].code.tree)
                    /\ ~HasConstructorAssign(call[c].code.tree)
            /\ CountType(VerdictOf(c).errors, "missing_instance") <= 1

\* the import is there, the only constructor call is assigned to an
\* attribute, and no missing_instance is reported
C6_AttributeTarget ==
    \E c \in Callers :
        /\ Finished(c) /\ call[c].code.ok
        /\ ImportsFastMCP(call[c].code.tree)
        /\ HasConstructorAssign(call[c].code.tree)
        /\ ~ResolvesBindingName(call[c].code.tree)
        /\ ~HasError(VerdictOf(c).errors, "missing_instance")

(***************************************************************************)
(* C7: when empty_deck is reported.                                        *)
(***************************************************************************)
\* C7 (as claimed): empty_deck is among the errors exactly when a host
\* binding name is resolved and tools_found and resources_found are empty.
C7_ResolvedNameAndEmpty ==
    \A c \in Callers :
        Finished(c) /\ call[c].code.ok =>
            (HasError(VerdictOf(c).errors, "empty_deck")
                <=> /\ ResolvesBindingName(call[c].code.tree)
                    /\ VerdictOf(c).tools_found = <<>>
                    /\ VerdictOf(c).resources_found = <<>>)

\* C7 (amended): empty_deck is among the errors exactly when the unit has a
\* constructor-call assignment (whether or not a binding name is resolved
\* from it) and tools_found and resources_found are empty; prompts do not
\* count.
C7_ConstructorAssignAndEmpty ==
    \A c \in Callers :
        Finished(c) /\ call[c].code.ok =>
            (HasError(VerdictOf(c).errors, "empty_deck")
                <=> /\ HasConstructorAssign(call[c].code.tree)
                    /\ VerdictOf(c).tools_found = <<>>
                    /\ VerdictOf(c).resources_found = <<>>)

\* a unit that declares a Prompt only and is reported as an empty deck
C7_PromptOnly ==
    \E c \in Callers :
        /\ Finished(c) /\ call[c].code.ok
        /\ VerdictOf(c).prompts_found # <<>>
        /\ HasError(VerdictOf(c).errors, "empty_deck")

(***************************************************************************)
(* C8: the docstring errors of a Tool.                                     *)
(***************************************************************************)
\* the lengths a docstring is short at: TRUE for a length below the minimum
\* counts the empty docstring, FALSE does not
DocstringErrorsAre(c, emptyIsShort) ==
    LET nodes == Walk(call[c].code.tree)
        errors == VerdictOf(c).errors
        analyzer == AnalyzerOf(c)
    IN /\ \A j \in DOMAIN errors :
             errors[j].type \in {"missing_docstring", "short_docstring"} =>
                \E i \in DOMAIN nodes :
                   /\ IsFunction(nodes[i])
                   /\ nodes[i].lineno = errors[j].line
                   /\ nodes[i].name = errors[j].message.subject
       /\ \A i \in DOMAIN nodes :
          IsFunction(nodes[i]) =>
             LET f == nodes[i]
                 k == Cardinality(MarkersOf(analyzer, f, "tool"))
                 docstring == GetDocstring(f)
                 missing == \/ docstring = None
                            \/ ~emptyIsShort /\ docstring[1] = <<>>
                 short == /\ docstring # None
                          /\ Len(docstring[1]) < MinDocstringLength
                          /\ emptyIsShort \/ docstring[1] # <<>>
             IN /\ CountAt(errors, "missing_docstring", f.lineno) = IF missing THEN k ELSE 0
                /\ CountAt(errors, "short_docstring", f.lineno) = IF short THEN k ELSE 0

\* C8 (as claimed): per qualifying Tool marker, one missing_docstring when the
\* function has no docstring, one short_docstring when it has one of fewer
\* than 10 characters, none when it has one of 10 or more.
C8_ShortBelowTen ==
    \A c \in Callers :
        Finished(c) /\ call[c].code.ok => DocstringErrorsAre(c, TRUE)

\* C8 (amended): per qualifying Tool marker, one missing_docstring when the
\* function has no docstring or an empty one, one short_docstring when its
\* docstring, leading blanks stripped, has 1 to 9 characters, none when it
\* has 10 or more; the error's line is the function's line.
C8_EmptyIsMissing ==
    \A c \in Callers :
        Finished(c) /\ call[c].code.ok => DocstringErrorsAre(c, FALSE)

\* a Tool whose docstring has 9 characters after a leading blank is short;
\* nothing else is wrong with the unit
C8_ShortTool ==
    \E c \in Callers :
        /\ Finished(c) /\ call[c].code.ok
        /\ Len(VerdictOf(c).errors) = 1
        /\ VerdictOf(c).errors[1].type = "short_docstring"
        /\ \E i \in DOMAIN Walk(call[c].code.tree) :
              LET f == Walk(call[c].code.tree)[i]
              IN /\ IsFunction(f)
                 /\ f.body[1] = DocStmt(1, MinDocstringLength - 1)
                 /\ VerdictOf(c).errors[1].line = f.lineno

(***************************************************************************)
(* C9: the URI errors of a Resource.                                       *)
(***************************************************************************)
HasFirstArg(decorator) == decorator.type = "Call" /\ decorator.args # <<>>

HasLiteralUri(decorator) ==
    /\ HasFirstArg(decorator)
    /\ decorator.args[1].type = "Constant"
    /\ decorator.args[1].kind = "str"

\* C9: per qualifying Resource marker, one missing_resource_uri (and no other
\* URI error) when it has no first positional argument, one
\* invalid_resource_uri when that argument is a string literal without "://",
\* neither when it is a string literal with "://", and no error at all when
\* it is not a string literal.
C9_UriErrors ==
    \A c \in Callers :
        Finished(c) /\ call[c].code.ok =>
            LET nodes == Walk(call[c].code.tree)
                errors == VerdictOf(c).errors
                analyzer == AnalyzerOf(c)
            IN \A i \in DOMAIN nodes :
                  IsFunction(nodes[i]) =>
                     LET f == nodes[i]
                         markers == MarkersOf(analyzer, f, "resource")
                         noUri == {d \in markers : ~HasFirstArg(f.decorator_list[d])}
                         badUri == {d \in markers :
                                       /\ HasLiteralUri(f.decorator_list[d])
                                       /\ ~Contains(f.decorator_list[d].args[1].text,
                                                    <<":", "/", "/">>)}
                     IN /\ CountAt(errors, "missing_resource_uri", f.lineno)
                              = Cardinality(noUri)
                        /\ CountAt(errors, "invalid_resource_uri", f.lineno)
                              = Cardinality(badUri)
                        /\ CountAt(errors, "uri_param_mismatch", f.lineno) > 0
                              => \E d \in markers : HasLiteralUri(f.decorator_list[d])

\* a Resource marker whose first argument is no string literal, and a unit
\* without any error
C9_NonLiteralSkipped ==
    \E c \in Callers :
        /\ Finished(c) /\ call[c].code.ok
        /\ VerdictOf(c).errors = <<>>
        /\ VerdictOf(c).resources_found # <<>>
        /\ \E i \in DOMAIN Walk(call[c].code.tree) :
              LET f == Walk(call[c].code.tree)[i]
              IN /\ IsFunction(f)
                 /\ \E d \in MarkersOf(AnalyzerOf(c), f, "resource") :
                       /\ HasFirstArg(f.decorator_list[d])
                       /\ ~HasLiteralUri(f.decorator_list[d])

(***************************************************************************)
(* C10 (as claimed): for a Resource marker with a literal URI, the number  *)
(* of uri_param_mismatch errors is the number of distinct template names   *)
(* that are not parameters of the function.                                *)
(***************************************************************************)
\* every parameter of the function, of any kind
AllParams(f) == f.args.posonlyargs \o f.args.args \o f.args.kwonlyargs

\* the distinct template names of a marker's literal URI that are no
\* parameter of f
MissingNames(f, decorator) ==
    LET names == FindTemplateParams(decorator.args[1].text)
    IN {names[n] : n \in {m \in DOMAIN names : ~InList(names[m], AllParams(f))}}

RECURSIVE SumOver(_, _, _)
SumOver(f, ds, remaining) ==
    IF remaining = {} THEN 0
    ELSE LET d == CHOOSE x \in remaining : TRUE
         IN (IF HasLiteralUri(ds[d]) THEN Cardinality(MissingNames(f, ds[d])) ELSE 0)
            + SumOver(f, ds, remaining \ {d})

C10_OnePerDistinctName ==
    \A c \in Callers :
        Finished(c) /\ call[c].code.ok =>
            LET nodes == Walk(call[c].code.tree)
            IN \A i \in DOMAIN nodes :
                  IsFunction(nodes[i]) =>
                     CountAt(VerdictOf(c).errors, "uri_param_mismatch", nodes[i].lineno)
                        = SumOver(nodes[i], nodes[i].decorator_list,
                                  MarkersOf(AnalyzerOf(c), nodes[i], "resource"))

(***************************************************************************)
(* C11: a function's name enters a found list only for a marker            *)
(* <receiver>.tool, .resource or .prompt whose receiver is a plain name,   *)
(* the resolved host binding or one of mcp, server, app; a function none   *)
(* of whose markers is of that form enters no found list and gets no       *)
(* error and no warning.                                                   *)
(***************************************************************************)
\* the marker is <receiver>.tag or <receiver>.tag(...), its receiver a plain
\* name that is the binding or a conventional name
IsMarker(binding, decorator, tag) ==
    LET callee == IF decorator.type = "Call" THEN decorator.func ELSE decorator
    IN /\ callee.type = "Attribute"
       /\ callee.attr = tag
       /\ callee.value.type = "Name"
       /\ \/ binding = Some(callee.value.id)
          \/ callee.value.id \in {"mcp", "server", "app"}

\* the names of the functions among nodes, once per marker of the tag
RECURSIVE NamesMarked(_, _, _)
NamesMarked(binding, nodes, tag) ==
    IF nodes = <<>> THEN <<>>
    ELSE LET f == Head(nodes)
             here == IF IsFunction(f)
                     THEN SelectSeq(f.decorator_list,
                                    LAMBDA d : IsMarker(binding, d, tag))
                     ELSE <<>>
         IN [i \in DOMAIN here |-> f.name] \o NamesMarked(binding, Tail(nodes), tag)

Unmarked(binding, f) ==
    \A d \in DOMAIN f.decorator_list :
        \A tag \in {"tool", "resource", "prompt"} :
            ~IsMarker(binding, f.decorator_list[d], tag)

C11_FoundOnlyThroughMarkers ==
    \A c \in Callers :
        Finished(c) /\ call[c].code.ok =>
            LET analyzer == AnalyzerOf(c)
                binding == analyzer.mcp_var_name
                nodes == Walk(call[c].code.tree)
                verdict == VerdictOf(c)
            IN /\ verdict.tools_found = NamesMarked(binding, nodes, "tool")
               /\ verdict.resources_found = NamesMarked(binding, nodes, "resource")
               /\ verdict.prompts_found = NamesMarked(binding, nodes, "prompt")
               /\ \A i \in DOMAIN nodes :
                     IsFunction(nodes[i]) /\ Unmarked(binding, nodes[i]) =>
                        /\ \A j \in DOMAIN verdict.errors :
                              verdict.errors[j].line # nodes[i].lineno
                        /\ \A j \in DOMAIN analyzer.warnings :
                              analyzer.warnings[j].line # nodes[i].lineno

\* a function without docstring that calls requests.get, marked self.mcp.tool()
\* under level3: nothing found, nothing reported at its line
C11_ForeignReceiverIgnored ==
    \E c \in Callers :
        /\ Finished(c) /\ call[c].code.ok
        /\ call[c].level = Some("level3")
        /\ VerdictOf(c).tools_found = <<>>
        /\ \E i \in DOMAIN Walk(call[c].code.tree) :
              LET f == Walk(call[c].code.tree)[i]
              IN /\ IsFunction(f)
                 /\ f.body = <<Pass, HttpCall>>
                 /\ f.decorator_list =
                       <<Call(Attribute(Attribute(Name("self"), "mcp"), "tool"), <<>>)>>
                 /\ \A j \in DOMAIN VerdictOf(c).errors :
                       VerdictOf(c).errors[j].line # f.lineno

(***************************************************************************)
(* C12: several constructor-call assignments in one unit.                  *)
(***************************************************************************)
\* the constructor-call assignments of the unit, in traversal order
ConstructorAssigns(tree) == SelectSeq(Walk(tree), IsConstructorAssign)

HasNameTarget(assign) == assign.targets # <<>> /\ assign.targets[1].type = "Name"

\* the target of the last assignment of the sequence, when it is a plain name
LastTarget(assigns) ==
    IF assigns # <<>> /\ HasNameTarget(assigns[Len(assigns)])
    THEN Some(assigns[Len(assigns)].targets[1].id)
    ELSE None

\* the found lists are those of the markers through binding or through a
\* conventional name
FoundThrough(c, binding) ==
    LET nodes == Walk(call[c].code.tree)
        verdict == VerdictOf(c)
    IN /\ verdict.tools_found = NamesMarked(binding, nodes, "tool")
       /\ verdict.resources_found = NamesMarked(binding, nodes, "resource")
       /\ verdict.prompts_found = NamesMarked(binding, nodes, "prompt")

\* C12 (as claimed): with several constructor-call assignments, the host
\* binding is the target of the last one met in the traversal; a function
\* marked only through an earlier binding name is in no found list.
C12_LastAssignmentWins ==
    \A c \in Callers :
        Finished(c) /\ call[c].code.ok =>
            LET assigns == ConstructorAssigns(call[c].code.tree)
            IN Len(assigns) >= 2 => FoundThrough(c, LastTarget(assigns))

\* C12 (amended): with several constructor-call assignments, the host
\* binding is the target of the last one met in the traversal among those
\* whose left-hand side is a plain name; a function marked only through
\* another, non-conventional name is in no found list, wherever it stands.
C12_LastNamedAssignmentWins ==
    \A c \in Callers :
        Finished(c) /\ call[c].code.ok =>
            LET assigns == ConstructorAssigns(call[c].code.tree)
                binding == LastTarget(SelectSeq(assigns, HasNameTarget))
            IN Len(assigns) >= 2 =>
                  /\ AnalyzerOf(c).mcp_var_name = binding
                  /\ FoundThrough(c, binding)

\* deck = FastMCP(..), then a function marked deck.tool(), then
\* hub = FastMCP(..): the function is not found
C12_EarlierNameDiscarded ==
    \E c \in Callers :
        /\ Finished(c) /\ call[c].code.ok
        /\ VerdictOf(c).tools_found = <<>>
        /\ LET body == call[c].code.tree.body
           IN /\ Len(body) = 4
              /\ body[2] = Assign(<<Name("deck")>>, NewFastMCP)
              /\ IsFunction(body[3])
              /\ body[3].decorator_list = <<Marker("deck", "tool", <<>>)>>
              /\ body[4] = Assign(<<Name("hub")>>, NewFastMCP)

(***************************************************************************)
(* C13: for one code, every diagnostic kind of the level3 pack reported    *)
(* under level3 is reported under level4 too, and every base or            *)
(* per-declaration kind is reported under level4 exactly when it is        *)
(* reported under level3.                                                  *)
(***************************************************************************)
Level3Kinds ==
    {"missing_httpx", "no_async_tools", "sync_http_call", "no_async_client",
     "no_caching", "no_error_handling"}

BaseAndDeclarationKinds ==
    {"syntax_error", "missing_resource_docstring"} \cup BaseErrors \cup DeclarationErrors

\* the kinds of the diagnostics of a run of validate: the errors of its
\* verdict and the warnings the analyzer collected
KindsOf(run) ==
    { run.verdict.errors[j].type : j \in DOMAIN run.verdict.errors }
        \cup { run.self.warnings[j].type : j \in DOMAIN run.self.warnings }

C13_Level4CoversLevel3 ==
    \A c \in Callers :
        Finished(c) /\ call[c].level = Some("level3") =>
            LET under3 == KindsOf([self |-> AnalyzerOf(c), verdict |-> VerdictOf(c)])
                under4 == KindsOf(ValidateRun(MCPValidator(Some("level4")),
                                              call[c].code, None))
            IN /\ \A kind \in Level3Kinds : kind \in under3 => kind \in under4
               /\ \A kind \in BaseAndDeclarationKinds :
                     kind \in under3 <=> kind \in under4

\* a verdict under level3 with both errors of the level3 pack, a warning of
\* the pack and a per-declaration error
C13_Level3PackReported ==
    \E c \in Callers :
        /\ Finished(c) /\ call[c].level = Some("level3")
        /\ HasError(VerdictOf(c).errors, "missing_httpx")
        /\ HasError(VerdictOf(c).errors, "no_async_tools")
        /\ HasError(VerdictOf(c).errors, "missing_docstring")
        /\ HasError(AnalyzerOf(c).warnings, "sync_http_call")

(***************************************************************************)
(* C14 (as claimed): the verdict carries, besides valid, errors and the    *)
(* three found lists, the warnings the analyzer collected and its three    *)
(* feature flags as has_async, has_caching and has_security.               *)
(***************************************************************************)
C14_VerdictCarriesAll ==
    \A c \in Callers :
        Finished(c) =>
            LET verdict == VerdictOf(c)
                analyzer == AnalyzerOf(c)
            IN /\ {"warnings", "has_async", "has_caching", "has_security"}
                     \subseteq DOMAIN verdict
               /\ verdict.warnings = analyzer.warnings
               /\ verdict.has_async = analyzer.has_async_client
               /\ verdict.has_caching = analyzer.has_caching
               /\ verdict.has_security = analyzer.has_path_validation

(***************************************************************************)
(* C15 (as claimed): validate_code is invoked only with the level unset    *)
(* or one of level2, level3, level4; a request with another level is       *)
(* rejected before it.                                                     *)
(***************************************************************************)
C15_OnlyKnownLevels ==
    \A c \in Callers :
        Finished(c) =>
            call[c].level \in {None, Some("level2"), Some("level3"), Some("level4")}

(***************************************************************************)
(* C16: for the empty code, and for any parseable code without import,     *)
(* assignment and function definition, validate with the level unset       *)
(* returns valid = false, exactly one error, missing_import at line 1,     *)
(* and empty found lists.                                                  *)
(***************************************************************************)
Bare(tree) ==
    LET nodes == Walk(tree)
    IN \A i \in DOMAIN nodes :
          nodes[i].type \notin
             {"Import", "ImportFrom", "Assign", "FunctionDef", "AsyncFunctionDef"}

C16_BareCodeLacksImport ==
    \A c \in Callers :
        Finished(c) /\ call[c].code.ok /\ call[c].level = None
                    /\ Bare(call[c].code.tree) =>
            LET verdict == VerdictOf(c)
            IN /\ verdict.valid = FALSE
               /\ Len(verdict.errors) = 1
               /\ verdict.errors[1].type = "missing_import"
               /\ verdict.errors[1].line = 1
               /\ verdict.tools_found = <<>>
               /\ verdict.resources_found = <<>>
               /\ verdict.prompts_found = <<>>

\* the empty code, validated with the level unset
C16_EmptyCodeValidated ==
    \E c \in Callers :
        /\ Finished(c) /\ call[c].code.ok /\ call[c].level = None
        /\ call[c].code.tree = Module(<<>>)
        /\ call[c].code.text = {}
        /\ Len(VerdictOf(c).errors) = 1

(***************************************************************************)
(* C17: a code that imports FastMCP from fastmcp, assigns a FastMCP(..)    *)
(* call to a plain variable and declares exactly one function marked as    *)
(* Tool through that variable, with a docstring of at least 10 characters, *)
(* and no Resource, is valid under the level unset: no errors, and         *)
(* tools_found is the list of that one name.                               *)
(***************************************************************************)
ImportsFastMCPFrom(tree) ==
    LET nodes == Walk(tree)
    IN \E i \in DOMAIN nodes :
          /\ nodes[i].type = "ImportFrom"
          /\ nodes[i].module = Some("fastmcp")
          /\ InList("FastMCP", nodes[i].names)

\* the markers of the tag in the unit: pairs of a node's and a marker's position
MarkerPairs(binding, nodes, tag) ==
    UNION { { <<i, d>> : d \in { d \in DOMAIN nodes[i].decorator_list :
                                     IsMarker(binding, nodes[i].decorator_list[d], tag) } } :
            i \in { i \in DOMAIN nodes : IsFunction(nodes[i]) } }

\* f is the one Tool of the unit, marked once, through the variable
IsTheOnlyTool(variable, nodes, i) ==
    /\ IsFunction(nodes[i])
    /\ \E d \in DOMAIN nodes[i].decorator_list :
          /\ MarkerPairs(variable, nodes, "tool") = {<<i, d>>}
          /\ nodes[i].decorator_list[d] \in
                {Marker(variable[1], "tool", <<>>), Attribute(Name(variable[1]), "tool")}
    /\ MarkerPairs(variable, nodes, "resource") = {}
    /\ GetDocstring(nodes[i]) # None
    /\ Len(GetDocstring(nodes[i])[1]) >= MinDocstringLength

PathSafetyProbeMatches(code) ==
    \/ InCode("is_relative_to", code)
    \/ InCode("resolve()", code)
    \/ InCode("is_safe_path", code)
    \/ InCode("..", code) /\ InCode("not", code)

C18_SecurityIffProbe ==
    \A c \in Callers :
        Finished(c) /\ call[c].code.ok /\ call[c].level = Some("level2") =>
            LET analyzer == AnalyzerOf(c)
            IN /\ analyzer.has_path_validation = PathSafetyProbeMatches(call[c].code)
               /\ HasError(analyzer.warnings, "missing_path_security")
                     <=> ~PathSafetyProbeMatches(call[c].code)

(***************************************************************************)
(* C19 (as claimed): under level3 and level4 exactly one of the two holds: *)
(* no_async_client is warned, or the async-client flag is set; it is       *)
(* warned whenever neither AsyncClient nor 'async with httpx' occurs in    *)
(* the text, with or without the httpx import.                             *)
(***************************************************************************)
AsyncClientProbeMatches(code) ==
    InCode("AsyncClient", code) \/ InCode("async with httpx", code)

C19_WarningOrFlag ==
    \A c \in Callers :
        Finished(c) /\ call[c].code.ok
                    /\ call[c].level \in {Some("level3"), Some("level4")} =>
            LET analyzer == AnalyzerOf(c)
            IN /\ HasError(analyzer.warnings, "no_async_client")
                     <=> ~analyzer.has_async_client
               /\ ~AsyncClientProbeMatches(call[c].code)
                     => HasError(analyzer.warnings, "no_async_client")

(***************************************************************************)
(* C20: under level3 and level4 the errors contain no_async_tools exactly  *)
(* when tools_found is not empty and no function defined with async def    *)
(* carries a qualifying Tool marker; it is never reported without Tools,   *)
(* and at most once in a verdict.                                          *)
(***************************************************************************)
HasAsyncTool(binding, nodes) ==
    \E i \in DOMAIN nodes :
        /\ nodes[i].type = "AsyncFunctionDef"
        /\ \E d \in DOMAIN nodes[i].decorator_list :
              IsMarker(binding, nodes[i].decorator_list[d], "tool")

C20_NoAsyncTools ==
    \A c \in Callers :
        Finished(c) /\ call[c].code.ok
                    /\ call[c].level \in {Some("level3"), Some("level4")} =>
            LET verdict == VerdictOf(c)
                binding == AnalyzerOf(c).mcp_var_name
                nodes == Walk(call[c].code.tree)
            IN CountType(verdict.errors, "no_async_tools") =
                  IF verdict.tools_found # <<>> /\ ~HasAsyncTool(binding, nodes)
                  THEN 1 ELSE 0

\* under level4, a Tool defined with def beside a Resource defined with
\* async def: no_async_tools is reported, once
C20_AsyncResourceIsNoAsyncTool ==
    \E c \in Callers :
        /\ Finished(c) /\ call[c].code.ok /\ call[c].level = Some("level4")
        /\ CountType(VerdictOf(c).errors, "no_async_tools") = 1
        /\ VerdictOf(c).tools_found # <<>>
        /\ VerdictOf(c).resources_found # <<>>
        /\ \E i \in DOMAIN Walk(call[c].code.tree) :
              Walk(call[c].code.tree)[i].type = "AsyncFunctionDef"

(***************************************************************************)
(* C21 (as claimed): a template name of a Resource URI that is a parameter *)
(* of the function, of any kind (keyword-only and positional-only          *)
(* included), gives no uri_param_mismatch error.                           *)
(***************************************************************************)
C21_AnyParameterMatches ==
    \A c \in Callers :
        Finished(c) /\ call[c].code.ok =>
            LET nodes == Walk(call[c].code.tree)
                errors == VerdictOf(c).errors
            IN \A i \in DOMAIN nodes, j \in DOMAIN errors :
                  /\ IsFunction(nodes[i])
                  /\ errors[j].type = "uri_param_mismatch"
                  /\ errors[j].line = nodes[i].lineno
                  => ~InList(errors[j].message.param, AllParams(nodes[i]))

(***************************************************************************)
(* C22: sync_http_call is a warning, never an error, and only under level3 *)
(* and level4: per qualifying Tool marker on a function defined with def   *)
(* whose body has an attribute named get, post, put, delete or request,    *)
(* exactly one warning, however many such attributes; none for a function  *)
(* defined with async def and none under another level; valid does not     *)
(* depend on it.                                                           *)
(***************************************************************************)
\* some statement of the body of f has an attribute named like an HTTP verb
BodyHasHttpVerb(f) ==
    \E s \in DOMAIN f.body :
        \E n \in DOMAIN Walk(f.body[s]) :
            /\ Walk(f.body[s])[n].type = "Attribute"
            /\ Walk(f.body[s])[n].attr \in {"get", "post", "put", "delete", "request"}

C22_SyncHttpCallWarning ==
    \A c \in Callers :
        Finished(c) /\ call[c].code.ok =>
            LET analyzer == AnalyzerOf(c)
                verdict == VerdictOf(c)
                nodes == Walk(call[c].code.tree)
                leveled == call[c].level \in {Some("level3"), Some("level4")}
            IN /\ ~HasError(verdict.errors, "sync_http_call")
               /\ verdict.valid <=> verdict.errors = <<>>
               /\ ~leveled => ~HasError(analyzer.warnings, "sync_http_call")
               /\ \A i \in DOMAIN nodes :
                     IsFunction(nodes[i]) =>
                        LET f == nodes[i]
                            k == Len(SelectSeq(f.decorator_list,
                                     LAMBDA d : IsMarker(analyzer.mcp_var_name, d, "tool")))
                            count == CountAt(analyzer.warnings, "sync_http_call", f.lineno)
                        IN /\ f.type = "AsyncFunctionDef" => count = 0
                           /\ leveled /\ f.type = "FunctionDef" /\ BodyHasHttpVerb(f)
                                 => count = k

\* under level3, a Tool defined with def that makes two HTTP calls gets one
\* warning, and the verdict is valid
C22_WarnedOnceAndValid ==
    \E c \in Callers :
        /\ Finished(c) /\ call[c].code = MixedUnit /\ call[c].level = Some("level3")
        /\ VerdictOf(c).valid = TRUE
        /\ CountType(AnalyzerOf(c).warnings, "sync_http_call") = 1

(***************************************************************************)
(* C23: for every code, the errors and the valid flag under level2 are     *)
(* those under the level unset; under level3 and level4 the errors of the  *)
(* verdict under the level unset are all present, in the same relative     *)
(* order.                                                                  *)
(***************************************************************************)
\* the elements of part occur in whole, in the order they have in part
RECURSIVE IsSubsequence(_, _)
IsSubsequence(part, whole) ==
    IF part = <<>> THEN TRUE
    ELSE IF whole = <<>> THEN FALSE
    ELSE IF Head(part) = Head(whole) THEN IsSubsequence(Tail(part), Tail(whole))
    ELSE IsSubsequence(part, Tail(whole))

C23_Level2KeepsValidity ==
    \A c \in Callers :
        Finished(c) /\ call[c].level # None =>
            LET verdict == VerdictOf(c)
                unset == ValidateCodeAlone(call[c].code, None)
            IN /\ call[c].level = Some("level2") =>
                     /\ verdict.errors = unset.errors
                     /\ verdict.valid = unset.valid
               /\ call[c].level \in {Some("level3"), Some("level4")} =>
                     IsSubsequence(unset.errors, verdict.errors)

\* under level2 the pack has warned of missing path security, and the
\* verdict is valid
C23_Level2WarnedAndValid ==
    \E c \in Callers :
        /\ Finished(c) /\ call[c].code.ok /\ call[c].level = Some("level2")
        /\ VerdictOf(c).valid = TRUE
        /\ HasError(AnalyzerOf(c).warnings, "missing_path_security")

(***************************************************************************)
(* C24: in one verdict missing_import and missing_instance never occur     *)
(* together, nor do missing_instance and empty_deck, and each of the three *)
(* base errors occurs at most once.                                        *)
(***************************************************************************)
C24_BaseErrorsExclusive ==
    \A c \in Callers :
        Finished(c) =>
            LET errors == VerdictOf(c).errors
            IN /\ ~(HasError(errors, "missing_import") /\ HasError(errors, "missing_instance"))
               /\ ~(HasError(errors, "missing_instance") /\ HasError(errors, "empty_deck"))
               /\ \A type \in BaseErrors : CountType(errors, type) <= 1

\* the pair that does occur together: missing_import and empty_deck
C24_ImportMissingDeckEmpty ==
    \E c \in Callers :
        /\ Finished(c)
        /\ HasError(VerdictOf(c).errors, "missing_import")
        /\ HasError(VerdictOf(c).errors, "empty_deck")

(***************************************************************************)
(* C25: found lists and diagnostics are per marker: a function with k      *)
(* qualifying markers of a category is k times in that category's found    *)
(* list and its validator runs k times, its diagnostics repeated k times;  *)
(* a function with markers of several categories is in each of the lists.  *)
(***************************************************************************)
\* how often name occurs in list
Occurrences(list, name) == Cardinality({j \in DOMAIN list : list[j] = name})

\* the markers of the tag on the functions of that name
MarkersOnName(binding, nodes, tag, name) ==
    Cardinality({p \in MarkerPairs(binding, nodes, tag) : nodes[p[1]].name = name})

C25_PerMarker ==
    \A c \in Callers :
        Finished(c) /\ call[c].code.ok =>
            LET analyzer == AnalyzerOf(c)
                binding == analyzer.mcp_var_name
                verdict == VerdictOf(c)
                nodes == Walk(call[c].code.tree)
            IN \A i \in DOMAIN nodes :
                  IsFunction(nodes[i]) =>
                     LET f == nodes[i]
                         tools == MarkerPairs(binding, <<f>>, "tool")
                         resources == MarkerPairs(binding, <<f>>, "resource")
                         undocumented ==
                            GetDocstring(f) = None \/ GetDocstring(f) = Some(<<>>)
                     IN /\ Occurrences(verdict.tools_found, f.name)
                              = MarkersOnName(binding, nodes, "tool", f.name)
                        /\ Occurrences(verdict.resources_found, f.name)
                              = MarkersOnName(binding, nodes, "resource", f.name)
                        /\ Occurrences(verdict.prompts_found, f.name)
                              = MarkersOnName(binding, nodes, "prompt", f.name)
                        /\ undocumented =>
                              /\ CountAt(verdict.errors, "missing_docstring", f.lineno)
                                    = Cardinality(tools)
                              /\ CountAt(analyzer.warnings, "missing_resource_docstring",
                                         f.lineno) = Cardinality(resources)

\* a function without docstring marked mcp.tool() and server.tool(): twice in
\* tools_found, two missing_docstring errors
C25_TwiceMarkedTool ==
    \E c \in Callers :
        /\ Finished(c) /\ call[c].code.ok
        /\ VerdictOf(c).tools_found = <<"cast", "cast">>
        /\ CountType(VerdictOf(c).errors, "missing_docstring") = 2


(***************************************************************************)
(* The in-memory store and get_database.                                   *)
(***************************************************************************)
\* the progress list of a user as get_progress gives it, in a state d of db
ProgressIn(d, user_id) ==
    IF d.objects = <<>> THEN <<>> ELSE GetProgress(d.objects[1], user_id)

\* the places of a list that hold this level and phase
PlacesOf(entries, level_id, phase_id) ==
    {i \in DOMAIN entries : entries[i].level_id = level_id /\ entries[i].phase_id = phase_id}

OnePerPair(entries) ==
    \A i, j \in DOMAIN entries :
        entries[i].level_id = entries[j].level_id /\ entries[i].phase_id = entries[j].phase_id
            => i = j

\* C26: in the in-memory store, whatever upsert_progress calls were made one
\* after the other, the progress list of every user holds at most one entry
\* per (level_id, phase_id); a call that changes the store is an upsert that
\* leaves the lists of the other users and the other entries of its user's
\* list as they were, and, when its pair was already in the list, keeps the
\* length, sets completed to what was given, and sets code_snapshot to what
\* was given if that is a non-empty text and keeps the stored one otherwise.
C26_UpsertOverwritesInPlace ==
    [][ /\ \A u \in UserIds : OnePerPair(ProgressIn(db', u))
        /\ db.objects # <<>> /\ db'.objects # db.objects =>
             \E user_id \in UserIds, level_id \in LevelIds, phase_id \in PhaseIds :
                LET op == frame'[1].op
                    before == ProgressIn(db, user_id)
                    after == ProgressIn(db', user_id)
                    places == PlacesOf(before, level_id, phase_id)
                IN  /\ op.name = "upsert_progress"
                    /\ op.user_id = user_id /\ op.level_id = level_id /\ op.phase_id = phase_id
                    /\ \A u \in UserIds \ {user_id} : ProgressIn(db', u) = ProgressIn(db, u)
                    /\ Len(after) >= Len(before)
                    /\ \A i \in DOMAIN before : i \notin places => after[i] = before[i]
                    /\ \A i \in places :
                          /\ Len(after) = Len(before)
                          /\ after[i].level_id = level_id /\ after[i].phase_id = phase_id
                          /\ after[i].completed = op.completed
                          /\ after[i].code_snapshot =
                                IF op.code_snapshot # None /\ op.code_snapshot[1] # ""
                                THEN op.code_snapshot
                                ELSE before[i].code_snapshot
      ]_vars

\* the last call was an upsert with an empty snapshot on a pair whose entry
\* holds a non-empty snapshot: the entry was there and kept its snapshot, with
\* a second entry beside it and a list of the other user
C26_EmptySnapshotKeepsStored ==
    /\ frame[1].pc = "done"
    /\ frame[1].op.name = "upsert_progress"
    /\ frame[1].op.code_snapshot = Some("")
    /\ frame[1].op.completed
    /\ LET entries == ProgressIn(db, frame[1].op.user_id)
       IN  /\ Len(entries) = 2
           /\ \E i \in DOMAIN entries :
                /\ entries[i].level_id = frame[1].op.level_id
                /\ entries[i].phase_id = frame[1].op.phase_id
                /\ entries[i].completed
                /\ entries[i].code_snapshot = Some("x = 1")
    /\ \E u \in UserIds \ {frame[1].op.user_id} : ProgressIn(db, u) # <<>>

\* C27: however the calls of get_database by the threads interleave, at most
\* one DatabaseService is ever constructed, and every call that has returned
\* has returned that one instance.
C27_OneInstance ==
    /\ Len(db.objects) <= 1
    /\ \A t \in Threads : frame[t].pc = "done" => frame[t].result = Some(1)
    /\ \A t, u \in Threads :
          frame[t].pc = "done" /\ frame[u].pc = "done" => frame[t].result = frame[u].result

\* two first calls overlapped: one thread passed the test outside the lock
\* before the instance was there and is now under the lock with the instance
\* in place, another has returned it
C27_ConcurrentFirstCalls ==
    \E t, u \in Threads :
        /\ t # u
        /\ frame[t].pc = "done" /\ frame[t].result = Some(1)
        /\ frame[u].pc = "recheck" /\ db.lock = u
        /\ db.service = Some(1)

====
